---- MODULE Spec2Model ----
(***************************************************************************)
(* Golf tracker (src/golf_tracker/app.py): the relational store and the    *)
(* request handlers that write scorecards and aggregate them per course.   *)
(*                                                                         *)
(* The store is the tables courses, holes, journal_entries and scores.     *)
(* Every handler is one action; its response is kept in resp so that the   *)
(* properties can speak about what a handler returned.                     *)
(* The two delete-then-insert replacements are also modelled statement by  *)
(* statement, on two connections (conns), for the properties about         *)
(* transactions and interleaved requests.                                  *)
(*                                                                         *)
(* Time: entry_date is CURRENT_TIMESTAMP.  A timestamp is a number of      *)
(* months since January 2023, so two entries written in the same month     *)
(* have equal entry_date (a tie of ORDER BY entry_date).                   *)
(* Floats: the averages of course_details are kept as exact fractions      *)
(* [n, d] in lowest terms; binary rounding is outside the model.           *)
(***************************************************************************)
EXTENDS Integers, Sequences, FiniteSets, TLC

VARIABLES
    users,            \* table users: [id, is_admin]
    courses,          \* table courses: [id, name, par, course_rating, slope]
    holes,            \* table holes: [id, course_id, hole_number, par, distance]
    journal_entries,  \* table journal_entries: [id, entry_date, course_id, user_id]
    scores,           \* table scores: [journal_entry_id, hole_id, score]
    next_hole_id,     \* next rowid of holes
    next_entry_id,    \* next rowid of journal_entries (AUTOINCREMENT)
    now,              \* the last reading of the clock
    resp,             \* the response of the last request
    conns,            \* the requests in progress, by connection (g.db)
    mig               \* the schema, the table schema_migrations and the
                      \* position of the migrate-db command

vars == <<users, courses, holes, journal_entries, scores,
          next_hole_id, next_entry_id, now, resp, conns, mig>>

store == <<users, courses, holes, journal_entries, scores>>

(***************************************************************************)
(* Python values                                                           *)
(***************************************************************************)
\* None, and a value that is present.  An optional request parameter or a
\* nullable column is None or Some(v).
None == <<>>

Some(v) == <<v>>

\* dict.get(key, default) on the request's parameters
Get(opt, default) == IF opt = None THEN default ELSE opt[1]

\* Python truthiness of an optional string: None and '' are false
Truthy(opt) == opt # None /\ opt[1] # ""

\* the empty dict
EmptyDict == <<>>

\* the element of a one-element set: Once({e(x) : x \in {v}}) is e(v), with v
\* computed once
Once(S) == CHOOSE x \in S : TRUE

Max(a, b) == IF a >= b THEN a ELSE b

Min(a, b) == IF a <= b THEN a ELSE b

\* the decimal numerals int() reads in this model
IntStrings == {ToString(i) : i \in (0 - 9) .. 199}

IntOfString == [s \in IntStrings |-> CHOOSE i \in (0 - 9) .. 199 : ToString(i) = s]

\* str.lower() on the strings the requests carry
Lower(s) == CASE s = "ALL" -> "all"
              [] s = "All" -> "all"
              [] OTHER -> s

\* str.zfill(2)
Zfill2(s) == IF Len(s) = 0 THEN "00" ELSE IF Len(s) = 1 THEN "0" \o s ELSE s

\* parse_int: [ok |-> TRUE, value |-> n], or [ok |-> FALSE] for ValueError.
\* min_value and max_value are None or Some(bound).
parse_int(value, min_value, max_value) ==
    IF value \notin IntStrings THEN [ok |-> FALSE]
    ELSE LET parsed == IntOfString[value]
         IN IF min_value # None /\ parsed < min_value[1] THEN [ok |-> FALSE]
            ELSE IF max_value # None /\ parsed > max_value[1] THEN [ok |-> FALSE]
            ELSE [ok |-> TRUE, value |-> parsed]

\* the decimal texts float() reads in this model, with their value in tenths
FloatTenths == [s \in {"0", "70.5", "-1.5"} |->
                   CASE s = "0" -> 0 [] s = "70.5" -> 705 [] s = "-1.5" -> 0 - 15]

\* parse_float: [ok |-> TRUE, value |-> tenths], or [ok |-> FALSE] for
\* ValueError.  min_value and max_value are None or Some(bound).
parse_float(value, min_value, max_value) ==
    IF value \notin DOMAIN FloatTenths THEN [ok |-> FALSE]
    ELSE LET parsed == FloatTenths[value]
         IN IF min_value # None /\ parsed < 10 * min_value[1] THEN [ok |-> FALSE]
            ELSE IF max_value # None /\ parsed > 10 * max_value[1] THEN [ok |-> FALSE]
            ELSE [ok |-> TRUE, value |-> parsed]

(***************************************************************************)
(* Arithmetic                                                              *)
(***************************************************************************)
RECURSIVE SumFn(_, _)
\* sum(f[k] for k in S)
SumFn(f, S) ==
    IF S = {} THEN 0
    ELSE LET k == CHOOSE k \in S : TRUE IN f[k] + SumFn(f, S \ {k})

RECURSIVE SumSeq(_)
SumSeq(s) == IF s = <<>> THEN 0 ELSE Head(s) + SumSeq(Tail(s))

RECURSIVE GCD(_, _)
GCD(a, b) == IF b = 0 THEN a ELSE GCD(b, a % b)

Abs(a) == IF a < 0 THEN 0 - a ELSE a

\* the number n/d (d > 0) in lowest terms
Frac(n, d) == LET g == GCD(Abs(n), d) IN [n |-> n \div g, d |-> d \div g]

FracAdd(a, b) == Frac(a.n * b.d + b.n * a.d, a.d * b.d)

FracSubInt(a, k) == Frac(a.n - k * a.d, a.d)

RECURSIVE FracSumFn(_, _)
\* sum(f[k] for k in S) of fractions; sum() starts from 0
FracSumFn(f, S) ==
    IF S = {} THEN Frac(0, 1)
    ELSE LET k == CHOOSE k \in S : TRUE IN FracAdd(f[k], FracSumFn(f, S \ {k}))

RECURSIVE SortedAsc(_)
\* sorted(values)
SortedAsc(s) ==
    IF s = <<>> THEN <<>>
    ELSE LET i == CHOOSE i \in 1 .. Len(s) : \A j \in 1 .. Len(s) : s[i] <= s[j]
         IN <<s[i]>> \o SortedAsc(SubSeq(s, 1, i - 1) \o SubSeq(s, i + 1, Len(s)))

\* sum(values) / len(values)
mean(values) == Frac(SumSeq(values), Len(values))

\* median taking the upper middle value of an even count
median_high(values) ==
    LET data == SortedAsc(values)
        n == Len(data)
    IN Frac(data[(n \div 2) + 1], 1)

\* statistics.median(values), values not empty
median(values) ==
    LET data == SortedAsc(values)
        n == Len(data)
    IN IF n % 2 = 1 THEN Frac(data[(n \div 2) + 1], 1)
       ELSE Frac(data[n \div 2] + data[(n \div 2) + 1], 2)

RECURSIVE SortedDescInts(_)
\* the integers of S, largest first
SortedDescInts(S) ==
    IF S = {} THEN <<>>
    ELSE LET m == CHOOSE m \in S : \A k \in S : k <= m
         IN <<m>> \o SortedDescInts(S \ {m})

(***************************************************************************)
(* Dates: strftime on entry_date                                           *)
(***************************************************************************)
YearOf(t) == 2023 + (t \div 12)

MonthOf(t) == (t % 12) + 1

\* strftime('%Y', entry_date)
strftime_Y(t) == ToString(YearOf(t))

TwoDigits(m) == IF m < 10 THEN "0" \o ToString(m) ELSE ToString(m)

\* strftime('%m', entry_date)
strftime_m(t) == TwoDigits(MonthOf(t))

month_name == <<"January", "February", "March", "April", "May", "June", "July",
                "August", "September", "October", "November", "December">>

month_abbr == <<"Jan", "Feb", "Mar", "Apr", "May", "Jun", "Jul",
                "Aug", "Sep", "Oct", "Nov", "Dec">>

\* entry_date.strftime('%b %d, %Y'); the day of a month-grained timestamp is 01
entry_label(t) == month_abbr[MonthOf(t)] \o " 01, " \o strftime_Y(t)

(***************************************************************************)
(* course_details: the queries                                             *)
(***************************************************************************)
\* SELECT ... FROM holes WHERE course_id = ?
course_holes(course_id) == {h \in holes : h.course_id = course_id}

RECURSIVE SumPar(_)
\* sum(hole['par'] for hole in H)
SumPar(H) ==
    IF H = {} THEN 0
    ELSE LET h == CHOOSE h \in H : TRUE IN h.par + SumPar(H \ {h})

\* sum(hole['par'] for hole in holes if hole['hole_number'] <= 9)
par_out(hs) == SumPar({h \in hs : h.hole_number <= 9})

\* par_in with hole 9 counted in the back nine too
par_in_from9(hs) == SumPar({h \in hs : h.hole_number >= 9})

\* sum(hole['par'] for hole in holes if hole['hole_number'] > 9)
par_in(hs) == SumPar({h \in hs : h.hole_number > 9})

\* limit_value with '0' read as a number
limit_value_zero_counts(selected_limit) ==
    IF selected_limit # "" /\ Lower(selected_limit) \notin {"all"}
    THEN IF selected_limit \in IntStrings
         THEN Some(Max(1, IntOfString[selected_limit]))
         ELSE Some(10)
    ELSE None

\* limit_value: None (no LIMIT) or Some(n)
limit_value(selected_limit) ==
    IF selected_limit # "" /\ Lower(selected_limit) \notin {"all", "0"}
    THEN IF selected_limit \in IntStrings
         THEN Some(Max(1, IntOfString[selected_limit]))
         ELSE Some(10)
    ELSE None

\* entries_where without the user_id condition
entries_where_any_user(course_id, user_id, selected_year, selected_month) ==
    {je \in journal_entries :
        /\ je.course_id = Some(course_id)
        /\ (Truthy(selected_year) => strftime_Y(je.entry_date) = selected_year[1])
        /\ (Truthy(selected_month) => strftime_m(je.entry_date) = selected_month[1])}

\* the WHERE clause of entries_query; selected_month is already zero-filled
entries_where(course_id, user_id, selected_year, selected_month) ==
    {je \in journal_entries :
        /\ je.course_id = Some(course_id)
        /\ je.user_id = user_id
        /\ (Truthy(selected_year) => strftime_Y(je.entry_date) = selected_year[1])
        /\ (Truthy(selected_month) => strftime_m(je.entry_date) = selected_month[1])}

RECURSIVE OrderByEntryDateAsc(_)
\* ORDER BY entry_date, without DESC
OrderByEntryDateAsc(rows) ==
    IF rows = {} THEN {<<>>}
    ELSE UNION {{<<r>> \o rest : rest \in OrderByEntryDateAsc(rows \ {r})} :
                r \in {r \in rows : \A q \in rows : r.entry_date <= q.entry_date}}

RECURSIVE OrderByNothing(_)
\* the query without its ORDER BY: the rows in any order
OrderByNothing(rows) ==
    IF rows = {} THEN {<<>>}
    ELSE UNION {{<<r>> \o rest : rest \in OrderByNothing(rows \ {r})} : r \in rows}

RECURSIVE OrderByEntryDateDesc(_)
\* ORDER BY entry_date DESC: every order of the rows that is descending in
\* entry_date; rows with equal entry_date come in any order
OrderByEntryDateDesc(rows) ==
    IF rows = {} THEN {<<>>}
    ELSE UNION {{<<r>> \o rest : rest \in OrderByEntryDateDesc(rows \ {r})} :
                r \in {r \in rows : \A q \in rows : q.entry_date <= r.entry_date}}

\* LIMIT ?
Limit(s, lim) == IF lim = None THEN s ELSE SubSeq(s, 1, Min(lim[1], Len(s)))

\* the results the entries query can give
entries_query(course_id, user_id, selected_year, selected_month, lim) ==
    {Limit(s, lim) :
        s \in OrderByEntryDateDesc(
                 entries_where(course_id, user_id, selected_year, selected_month))}

\* SELECT s.journal_entry_id, h.hole_number, s.score FROM scores s
\* JOIN holes h ON s.hole_id = h.id JOIN journal_entries je ON s.journal_entry_id = je.id
\* WHERE h.course_id = ? AND je.user_id = ?
scores_rows(course_id, user_id) ==
    UNION {{[journal_entry_id |-> s.journal_entry_id,
             hole_number |-> h.hole_number,
             score |-> s.score] :
                h \in {h \in holes : h.id = s.hole_id /\ h.course_id = course_id}} :
           s \in {s \in scores :
                    \E je \in journal_entries :
                        je.id = s.journal_entry_id /\ je.user_id = user_id}}

\* scores_by_entry: journal_entry_id -> (hole_number -> score).  A later row
\* overwrites an earlier one with the same keys; the store holds one row per
\* (entry, hole), so the rows of one key carry one score.
scores_by_entry(course_id, user_id) ==
    LET rows == scores_rows(course_id, user_id)
    IN [e \in {r.journal_entry_id : r \in rows} |->
          [n \in {r.hole_number : r \in {q \in rows : q.journal_entry_id = e}} |->
             (CHOOSE r \in rows : r.journal_entry_id = e /\ r.hole_number = n).score]]

(***************************************************************************)
(* course_details: the rows                                                *)
(***************************************************************************)
\* score_totals with hole 9 left out of the front nine
score_totals_front_lt9(entry_scores) ==
    IF DOMAIN entry_scores # {}
    THEN LET out_total == SumFn(entry_scores, {n \in DOMAIN entry_scores : n < 9})
             in_total == SumFn(entry_scores, {n \in DOMAIN entry_scores : n > 9})
         IN [out_total |-> Some(out_total),
             in_total |-> Some(in_total),
             total |-> Some(out_total + in_total)]
    ELSE [out_total |-> None, in_total |-> None, total |-> None]

\* out_total, in_total and total of a hole_number -> score dict
\* (course_details l.524-533, add_scorecard l.844-848); no score is None
score_totals(entry_scores) ==
    IF DOMAIN entry_scores # {}
    THEN LET out_total == SumFn(entry_scores, {n \in DOMAIN entry_scores : n <= 9})
             in_total == SumFn(entry_scores, {n \in DOMAIN entry_scores : n > 9})
         IN [out_total |-> Some(out_total),
             in_total |-> Some(in_total),
             total |-> Some(out_total + in_total)]
    ELSE [out_total |-> None, in_total |-> None, total |-> None]

\* to_par with an undefined total read as 0
to_par_none_as_zero(total, par_total) ==
    IF total # None THEN Some(total[1] - par_total) ELSE Some(0 - par_total)

\* to_par of a row
to_par(total, par_total) == IF total # None THEN Some(total[1] - par_total) ELSE None

\* one element of entry_rows, before the best flags are set
entry_row(entry, by_entry, par_total) ==
    LET entry_scores == IF entry.id \in DOMAIN by_entry THEN by_entry[entry.id]
                        ELSE EmptyDict
        t == score_totals(entry_scores)
    IN [id |-> Some(entry.id),
        label |-> entry_label(entry.entry_date),
        scores |-> entry_scores,
        out_total |-> t.out_total,
        in_total |-> t.in_total,
        total |-> t.total,
        to_par |-> to_par(t.total, par_total)]

\* best_of with max for min
best_of_max(values) ==
    IF values # {} THEN Some(CHOOSE m \in values : \A v \in values : m >= v) ELSE None

\* min(values) if values else None, over the rows' field that is not None
best_of(values) ==
    IF values # {} THEN Some(CHOOSE m \in values : \A v \in values : m <= v) ELSE None

best_total(rows) ==
    best_of({rows[i].total[1] : i \in {i \in 1 .. Len(rows) : rows[i].total # None}})

best_to_par(rows) ==
    best_of({rows[i].to_par[1] : i \in {i \in 1 .. Len(rows) : rows[i].to_par # None}})

\* entry['is_best']
is_best(row, best) == best # None /\ row.total = best

\* is_best_to_par comparing the total with the best to_par
is_best_to_par_on_total(row, best) == best # None /\ row.total = best

\* entry['is_best_to_par']
is_best_to_par(row, best) == best # None /\ row.to_par = best

\* entry_rows with is_best and is_best_to_par set; best_total and best_to_par
\* are computed once, before the loop
with_best_flags(rows) ==
    Once({[i \in 1 .. Len(rows) |->
             [id |-> rows[i].id,
              label |-> rows[i].label,
              scores |-> rows[i].scores,
              out_total |-> rows[i].out_total,
              in_total |-> rows[i].in_total,
              total |-> rows[i].total,
              to_par |-> rows[i].to_par,
              is_best |-> is_best(rows[i], best[1]),
              is_best_to_par |-> is_best_to_par(rows[i], best[2])]] :
          best \in {<<best_total(rows), best_to_par(rows)>>}})

\* the recorded scores of one hole, in the order of entry_rows
hole_values(rows, hole_number) ==
    LET having == SelectSeq(rows, LAMBDA r : hole_number \in DOMAIN r.scores)
    IN [i \in 1 .. Len(having) |-> having[i].scores[hole_number]]

\* averages: hole_number -> mean, for the holes with a recorded score
averages_of(rows, hs) ==
    [n \in {h.hole_number : h \in {h \in hs : hole_values(rows, h.hole_number) # <<>>}} |->
        mean(hole_values(rows, n))]

\* medians: hole_number -> median, for the holes with a recorded score
medians_of(rows, hs) ==
    [n \in {h.hole_number : h \in {h \in hs : hole_values(rows, h.hole_number) # <<>>}} |->
        median(hole_values(rows, n))]

\* the 'Average' or 'Median' row built from per-hole values
summary_row(label, values, par_total) ==
    LET out == FracSumFn(values, {n \in DOMAIN values : n <= 9})
        in == FracSumFn(values, {n \in DOMAIN values : n > 9})
        total == FracAdd(out, in)
    IN [id |-> None,
        label |-> label,
        scores |-> values,
        out_total |-> out,
        in_total |-> in,
        total |-> total,
        to_par |-> FracSubInt(total, par_total),
        is_best |-> FALSE,
        is_best_to_par |-> FALSE]

\* average_rows leaving the entry rows in place when there is no data
average_rows_keep(rows, averages, medians, par_total) ==
    IF DOMAIN averages # {} \/ DOMAIN medians # {}
    THEN (IF DOMAIN averages # {}
          THEN <<summary_row("Average", averages, par_total)>>
          ELSE <<>>)
         \o
         (IF DOMAIN medians # {}
          THEN <<summary_row("Median", medians, par_total)>>
          ELSE <<>>)
    ELSE rows

\* entry_rows of the average view, from the averages and medians dicts
average_rows(rows, averages, medians, par_total) ==
    IF DOMAIN averages # {} \/ DOMAIN medians # {}
    THEN (IF DOMAIN averages # {}
          THEN <<summary_row("Average", averages, par_total)>>
          ELSE <<>>)
         \o
         (IF DOMAIN medians # {}
          THEN <<summary_row("Median", medians, par_total)>>
          ELSE <<>>)
    ELSE <<>>

\* entry_rows after the view is applied
apply_view(selected_view, rows, hs, par_total) ==
    CASE selected_view = "best" -> SelectSeq(rows, LAMBDA r : r.is_best)
      [] selected_view = "best_to_par" -> SelectSeq(rows, LAMBDA r : r.is_best_to_par)
      [] selected_view = "average" ->
            Once({average_rows(rows, averages, medians, par_total) :
                     averages \in {averages_of(rows, hs)},
                     medians \in {medians_of(rows, hs)}})
      [] OTHER -> rows

\* available_years: the distinct years of the user's entries for the course,
\* ORDER BY year DESC (four-digit strings order as their numbers do)
available_years(course_id, user_id) ==
    LET ys == {YearOf(je.entry_date) :
                  je \in entries_where(course_id, user_id, None, None)}
        sorted == SortedDescInts(ys)
    IN [i \in 1 .. Len(sorted) |-> ToString(sorted[i])]

\* available_months with the months query that has no year condition
available_months_any_year(course_id, user_id, selected_year) ==
    LET ms == {MonthOf(je.entry_date) :
                  je \in entries_where(course_id, user_id, None, None)}
        sorted == SortedDescInts(ms)
    IN [i \in 1 .. Len(sorted) |->
          [value |-> TwoDigits(sorted[i]), label |-> month_name[sorted[i]]]]

\* available_months: the distinct months, of the selected year when one is
\* selected, ORDER BY month DESC (two-digit strings order as their numbers do)
available_months(course_id, user_id, selected_year) ==
    LET ms == {MonthOf(je.entry_date) :
                  je \in entries_where(course_id, user_id, selected_year, None)}
        sorted == SortedDescInts(ms)
    IN [i \in 1 .. Len(sorted) |->
          [value |-> TwoDigits(sorted[i]), label |-> month_name[sorted[i]]]]

(***************************************************************************)
(* The handlers.  Each is one request of the logged-in user user_id; the   *)
(* optional query parameters are None or Some(string), a form is a         *)
(* function from the hole numbers whose field was sent to the field text.  *)
(***************************************************************************)
\* par_total = par_out + par_in
par_total(hs) == par_out(hs) + par_in(hs)

\* the context course_details renders for a course that exists: one record
\* for each order the entries query can give
course_page(course_id, user_id, year, month, view, limit) ==
    LET selected_year == year
        selected_view == Get(view, "all")
        selected_limit == Get(limit, "10")
        selected_month == IF Truthy(month) THEN Some(Zfill2(month[1])) ELSE month
    IN UNION {
         {[handler |-> "course_details",
           status |-> 200,
           course_id |-> course_id,
           user_id |-> user_id,
           holes |-> hs,
           \* entry_rows as it is before the view is applied
           candidates |-> rows,
           entry_rows |-> apply_view(selected_view, rows, hs, par_total(hs)),
           par_out |-> par_out(hs),
           par_in |-> par_in(hs),
           par_total |-> par_total(hs),
           available_years |-> available_years(course_id, user_id),
           available_months |->
               available_months(course_id, user_id, selected_year),
           selected_year |-> selected_year,
           selected_month |-> selected_month,
           selected_view |-> selected_view,
           selected_limit |-> selected_limit,
           \* the query parameters as they were sent
           request |-> [year |-> year, month |-> month,
                        view |-> view, limit |-> limit]] :
            rows \in {with_best_flags(
                         [i \in 1 .. Len(entries) |->
                             entry_row(entries[i], by_entry, par_total(hs))])}} :
         hs \in {course_holes(course_id)},
         by_entry \in {scores_by_entry(course_id, user_id)},
         entries \in entries_query(course_id, user_id, selected_year,
                                   selected_month,
                                   limit_value(selected_limit))}

\* GET /courses/<course_id>?year=&month=&view=&limit=
course_details(course_id, user_id, year, month, view, limit) ==
    /\ UNCHANGED <<mig, conns, users, courses, holes, journal_entries, scores,
                   next_hole_id, next_entry_id, now>>
    /\ IF \A c \in courses : c.id # course_id
       THEN resp' = [handler |-> "course_details", status |-> 404]
       ELSE resp' \in course_page(course_id, user_id, year, month, view, limit)

\* require_admin with the login check only
require_login(user_id) == \E u \in users : u.id = user_id

\* require_admin
require_admin(user_id) == \E u \in users : u.id = user_id /\ u.is_admin

\* the fields of the course form, parsed in the order of the handlers; ok is
\* FALSE when one of them raises ValueError
course_fields(form) ==
    LET par == parse_int(form.par, Some(1), None)
        course_rating == parse_float(form.course_rating, Some(0), None)
        slope == parse_int(form.slope, Some(55), Some(155))
    IN IF par.ok /\ course_rating.ok /\ slope.ok
       THEN [ok |-> TRUE, name |-> form.name, par |-> par.value,
             course_rating |-> course_rating.value, slope |-> slope.value]
       ELSE [ok |-> FALSE]

\* GET or POST /courses/<course_id>/edit
edit_course(user_id, course_id, method, form) ==
    LET found == {c \in courses : c.id = course_id}
        fields == course_fields(form)
        request == [user_id |-> user_id, course_id |-> course_id,
                    method |-> method, form |-> form]
    IN /\ UNCHANGED <<mig, conns, users, holes, journal_entries, scores,
                      next_hole_id, next_entry_id, now>>
       /\ IF ~require_admin(user_id)
          THEN /\ resp' = [handler |-> "edit_course", status |-> 403,
                           request |-> request]
               /\ UNCHANGED courses
          ELSE IF found = {}
          THEN /\ resp' = [handler |-> "edit_course", status |-> 404,
                           request |-> request]
               /\ UNCHANGED courses
          ELSE IF method = "POST" /\ ~fields.ok
          THEN /\ resp' = [handler |-> "edit_course", status |-> 200,
                           error |-> TRUE, request |-> request]
               /\ UNCHANGED courses
          ELSE IF method = "POST"
          THEN \* UPDATE courses SET name = ?, par = ?, ... WHERE id = ?
               /\ courses' = (courses \ found) \cup
                                {[id |-> course_id, name |-> fields.name,
                                  par |-> fields.par,
                                  course_rating |-> fields.course_rating,
                                  slope |-> fields.slope]}
               /\ resp' = [handler |-> "edit_course", status |-> 302,
                           location |-> "course_list", request |-> request]
          ELSE /\ resp' = [handler |-> "edit_course", status |-> 200,
                           error |-> FALSE, request |-> request]
               /\ UNCHANGED courses

\* GET or POST /add_course
add_course(user_id, method, form) ==
    LET fields == course_fields(form)
        \* the rowid the INSERT gives the course
        rowid == 1 + Max(0, SortedDescInts({c.id : c \in courses} \cup {0})[1])
        request == [user_id |-> user_id, method |-> method, form |-> form]
    IN /\ UNCHANGED <<mig, conns, users, holes, journal_entries, scores,
                      next_hole_id, next_entry_id, now>>
       /\ IF ~require_admin(user_id)
          THEN /\ resp' = [handler |-> "add_course", status |-> 403,
                           request |-> request]
               /\ UNCHANGED courses
          ELSE IF method = "POST" /\ ~fields.ok
          THEN /\ resp' = [handler |-> "add_course", status |-> 200,
                           error |-> TRUE, request |-> request]
               /\ UNCHANGED courses
          ELSE IF method = "POST"
          THEN \* INSERT INTO courses (name, par, course_rating, slope, website_url)
               /\ courses' = courses \cup
                                {[id |-> rowid, name |-> fields.name,
                                  par |-> fields.par,
                                  course_rating |-> fields.course_rating,
                                  slope |-> fields.slope]}
               /\ resp' = [handler |-> "add_course", status |-> 302,
                           location |-> "course_list", request |-> request]
          ELSE /\ resp' = [handler |-> "add_course", status |-> 200,
                           error |-> FALSE, request |-> request]
               /\ UNCHANGED courses

\* holes_for_template: the 18 holes, par 4 where the course has no such hole
holes_for_template(course_id) ==
    [n \in 1 .. 18 |->
        LET h == {h \in course_holes(course_id) : h.hole_number = n}
        IN IF h = {} THEN [hole_number |-> n, par |-> 4, distance |-> None]
           ELSE [hole_number |-> n,
                 par |-> (CHOOSE x \in h : TRUE).par,
                 distance |-> (CHOOSE x \in h : TRUE).distance]]

\* DELETE FROM holes WHERE course_id = ?.  The schema of holes and scores is
\* not part of the source; as the specification describes the store, no
\* constraint ties scores.hole_id to holes: the rows of the course are
\* deleted and the Score rows that reference them stay as they are.
delete_holes(course_id) == holes \ course_holes(course_id)

\* GET or POST /add_holes_to_course/<course_id>; form[i] = [par, distance], the
\* texts of hole_i_par and hole_i_distance
add_holes_to_course(user_id, course_id, method, form) ==
    LET filled == {i \in (1 .. 18) \cap DOMAIN form : form[i].par # ""}
        par_int(i) == parse_int(form[i].par, Some(1), Some(7))
        distance_int(i) == parse_int(form[i].distance, Some(0), None)
        invalid == {i \in filled :
                       \/ ~par_int(i).ok
                       \/ form[i].distance # "" /\ ~distance_int(i).ok}
        \* the rowids of the inserted holes, in the order of the loop
        rowid(i) == next_hole_id + Cardinality({j \in filled : j < i})
        holes_to_insert ==
            {[id |-> rowid(i),
              course_id |-> course_id,
              hole_number |-> i,
              par |-> par_int(i).value,
              distance |-> IF form[i].distance # ""
                           THEN Some(distance_int(i).value) ELSE None] : i \in filled}
        \* the request as it was sent
        request == [user_id |-> user_id, course_id |-> course_id,
                    method |-> method, form |-> form]
    IN /\ UNCHANGED <<mig, conns, users, courses, journal_entries, scores, next_entry_id, now>>
       /\ IF ~require_admin(user_id)
          THEN /\ resp' = [handler |-> "add_holes_to_course", status |-> 403,
                           request |-> request]
               /\ UNCHANGED <<holes, next_hole_id>>
          ELSE IF \A c \in courses : c.id # course_id
          THEN /\ resp' = [handler |-> "add_holes_to_course", status |-> 404,
                           request |-> request]
               /\ UNCHANGED <<holes, next_hole_id>>
          ELSE IF method = "POST" /\ invalid # {}
          THEN /\ resp' = [handler |-> "add_holes_to_course", status |-> 200,
                           holes |-> holes_for_template(course_id), error |-> TRUE,
                           request |-> request]
               /\ UNCHANGED <<holes, next_hole_id>>
          ELSE IF method = "POST"
          THEN \* DELETE FROM holes WHERE course_id = ?, then the inserts
               /\ holes' = delete_holes(course_id) \cup holes_to_insert
               /\ next_hole_id' = next_hole_id + Cardinality(filled)
               /\ resp' = [handler |-> "add_holes_to_course", status |-> 302,
                           location |-> "course_list",
                           request |-> request]
          ELSE /\ resp' = [handler |-> "add_holes_to_course", status |-> 200,
                           holes |-> holes_for_template(course_id), error |-> FALSE,
                           request |-> request]
               /\ UNCHANGED <<holes, next_hole_id>>

\* GET or POST /add_journal_entry; course_id is the form's course_id field, t the
\* clock when the row is inserted (entry_date DEFAULT CURRENT_TIMESTAMP)
add_journal_entry(user_id, method, course_id, t) ==
    LET linked == Truthy(course_id)
        \* the column's value: the field read as an integer
        course_ref == IF linked /\ course_id[1] \in IntStrings
                      THEN Some(IntOfString[course_id[1]]) ELSE None
    IN /\ UNCHANGED <<mig, conns, users, courses, holes, scores, next_hole_id>>
       /\ IF method = "POST"
          THEN /\ t >= now
               /\ now' = t
               /\ IF linked /\ (course_ref = None
                                \/ \A c \in courses : c.id # course_ref[1])
                  THEN \* FOREIGN KEY (course_id) REFERENCES courses (id) fails
                       /\ resp' = [handler |-> "add_journal_entry", status |-> 500]
                       /\ UNCHANGED <<journal_entries, next_entry_id>>
                  ELSE /\ journal_entries' = journal_entries \cup
                              {[id |-> next_entry_id,
                                entry_date |-> t,
                                course_id |-> course_ref,
                                user_id |-> user_id]}
                       /\ next_entry_id' = next_entry_id + 1
                       /\ resp' = [handler |-> "add_journal_entry", status |-> 302,
                                   location |-> IF linked THEN "add_scorecard"
                                                ELSE "journal_list",
                                   journal_entry_id |-> next_entry_id]
          ELSE /\ resp' = [handler |-> "add_journal_entry", status |-> 200]
               /\ UNCHANGED <<journal_entries, next_entry_id, now>>

\* SELECT h.hole_number, s.score FROM scores s JOIN holes h ON s.hole_id = h.id
\* WHERE s.journal_entry_id = ?, as a hole_number -> score dict
scores_of_entry(journal_entry_id) ==
    LET rows == UNION {{[hole_number |-> h.hole_number, score |-> s.score] :
                           h \in {h \in holes : h.id = s.hole_id}} :
                       s \in {s \in scores : s.journal_entry_id = journal_entry_id}}
    IN [n \in {r.hole_number : r \in rows} |->
          (CHOOSE r \in rows : r.hole_number = n).score]

\* the submission without its DELETE
delete_scores_none(journal_entry_id) == scores

\* DELETE FROM scores WHERE journal_entry_id = ?
delete_scores(journal_entry_id) ==
    {s \in scores : s.journal_entry_id # journal_entry_id}

\* the check for a course without holes left out
no_holes_unchecked(hs) == FALSE

\* 'if not holes': no hole is defined for the course
no_holes(hs) == hs = {}

\* GET or POST /add_scorecard/<journal_entry_id>; form[i] is the text of hole_i_score
add_scorecard(user_id, journal_entry_id, method, form) ==
    LET found == {je \in journal_entries :
                     /\ je.id = journal_entry_id
                     /\ je.user_id = user_id
                     /\ je.course_id # None
                     /\ \E c \in courses : c.id = je.course_id[1]}
        journal_entry == CHOOSE je \in found : TRUE
        course_id == journal_entry.course_id[1]
        hs == course_holes(course_id)
        filled == {i \in (1 .. 18) \cap DOMAIN form : form[i] # ""}
        hole_score_int(i) == parse_int(form[i], Some(1), None)
        invalid == {i \in filled : ~hole_score_int(i).ok}
        scores_to_insert ==
            {[journal_entry_id |-> journal_entry_id,
              hole_id |-> (CHOOSE h \in hs : h.hole_number = i).id,
              score |-> hole_score_int(i).value] :
                i \in {i \in filled : \E h \in hs : h.hole_number = i}}
        others == {je \in journal_entries :
                      /\ je.course_id = Some(course_id)
                      /\ je.user_id = user_id
                      /\ je.id # journal_entry_id}
    IN /\ UNCHANGED <<mig, conns, users, courses, holes, journal_entries,
                      next_hole_id, next_entry_id, now>>
       /\ IF found = {}
          THEN /\ resp' = [handler |-> "add_scorecard", status |-> 404,
                           journal_entry_id |-> journal_entry_id,
                           request |-> [user_id |-> user_id, form |-> form]]
               /\ UNCHANGED scores
          ELSE IF no_holes(hs)
          THEN \* no holes are defined for the course: define them first
               /\ resp' = [handler |-> "add_scorecard", status |-> 302,
                           location |-> "add_holes_to_course",
                           course_id |-> course_id]
               /\ UNCHANGED scores
          ELSE IF method = "POST" /\ invalid # {}
          THEN /\ resp' = [handler |-> "add_scorecard", status |-> 200,
                           journal_entry_id |-> journal_entry_id,
                           course_id |-> course_id,
                           scores_data |-> scores_of_entry(journal_entry_id),
                           par_out |-> par_out(hs),
                           par_in |-> par_in(hs),
                           par_total |-> par_total(hs),
                           previous_entry |-> None,
                           last_scores |-> EmptyDict,
                           last_out |-> None,
                           last_in |-> None,
                           last_total |-> None,
                           error |-> TRUE,
                           request |-> [user_id |-> user_id, form |-> form]]
               /\ UNCHANGED scores
          ELSE IF method = "POST"
          THEN \* DELETE FROM scores WHERE journal_entry_id = ?, then the inserts
               /\ scores' = delete_scores(journal_entry_id) \cup scores_to_insert
               /\ resp' = [handler |-> "add_scorecard", status |-> 302,
                           location |-> "journal_details",
                           journal_entry_id |-> journal_entry_id,
                           course_id |-> course_id,
                           \* the request as it was sent
                           request |-> [user_id |-> user_id, form |-> form]]
          ELSE /\ UNCHANGED scores
               /\ \E previous \in {Limit(s, Some(1)) : s \in OrderByEntryDateDesc(others)} :
                    LET last_scores == IF previous = <<>> THEN EmptyDict
                                       ELSE scores_of_entry(previous[1].id)
                        last == score_totals(last_scores)
                    IN resp' = [handler |-> "add_scorecard", status |-> 200,
                                journal_entry_id |-> journal_entry_id,
                                course_id |-> course_id,
                                scores_data |-> scores_of_entry(journal_entry_id),
                                par_out |-> par_out(hs),
                                par_in |-> par_in(hs),
                                par_total |-> par_total(hs),
                                previous_entry |-> IF previous = <<>> THEN None
                                                   ELSE Some(previous[1].id),
                                last_scores |-> last_scores,
                                last_out |-> last.out_total,
                                last_in |-> last.in_total,
                                last_total |-> last.total,
                                error |-> FALSE]

RECURSIVE OrderByHoleNumber(_)
\* ORDER BY h.hole_number: every order of the rows that is ascending in
\* hole_number; rows with equal hole_number come in any order
OrderByHoleNumber(rows) ==
    IF rows = {} THEN {<<>>}
    ELSE UNION {{<<r>> \o rest : rest \in OrderByHoleNumber(rows \ {r})} :
                r \in {r \in rows : \A q \in rows : r.hole_number <= q.hole_number}}

\* SELECT h.hole_number, h.par, s.score FROM holes h LEFT JOIN scores s
\* ON h.id = s.hole_id AND s.journal_entry_id = ? WHERE h.course_id = ?
scorecard_rows(entry_id, course_id) ==
    UNION {LET matching == {sc \in scores :
                               sc.hole_id = h.id /\ sc.journal_entry_id = entry_id}
           IN IF matching = {}
              THEN {[hole_number |-> h.hole_number, par |-> h.par, score |-> None]}
              ELSE {[hole_number |-> h.hole_number, par |-> h.par,
                     score |-> Some(sc.score)] : sc \in matching} :
           h \in course_holes(course_id)}

\* the 'score' of a scorecard line as the page shows it: the number, or the
\* placeholder '-' for a hole without a score
score_or_placeholder(score) == IF score # None THEN ToString(score[1]) ELSE "-"

\* score_difference computed whatever the total is
score_difference_always(total_score, total_par) == Some(total_score - total_par)

\* score_difference: only calculated if scores were entered
score_difference(total_score, total_par) ==
    IF total_score > 0 THEN Some(total_score - total_par) ELSE None

\* GET /journal/<entry_id>
journal_details(user_id, entry_id) ==
    LET found == {je \in journal_entries : je.id = entry_id /\ je.user_id = user_id}
        entry == CHOOSE je \in found : TRUE
    IN /\ UNCHANGED <<mig, conns, users, courses, holes, journal_entries, scores,
                      next_hole_id, next_entry_id, now>>
       /\ IF found = {}
          THEN resp' = [handler |-> "journal_details", status |-> 404]
          ELSE \E holes_data \in (IF entry.course_id # None
                                  THEN OrderByHoleNumber(
                                           scorecard_rows(entry_id, entry.course_id[1]))
                                  ELSE {<<>>}) :
               \E total_score \in {SumSeq([i \in 1 .. Len(holes_data) |->
                                              Get(holes_data[i].score, 0)])},
                  total_par \in {SumSeq([i \in 1 .. Len(holes_data) |->
                                            holes_data[i].par])} :
                  resp' = [handler |-> "journal_details",
                           status |-> 200,
                           journal_entry_id |-> entry_id,
                           user_id |-> user_id,
                           course_id |-> entry.course_id,
                           scorecard |->
                               [i \in 1 .. Len(holes_data) |->
                                   [hole_number |-> holes_data[i].hole_number,
                                    par |-> holes_data[i].par,
                                    score |-> score_or_placeholder(holes_data[i].score)]],
                           total_score |-> total_score,
                           total_par |-> total_par,
                           score_difference |->
                               IF entry.course_id # None
                               THEN score_difference(total_score, total_par)
                               ELSE None]

\* GET or POST /journal/<entry_id>/edit; course_id is the form's course_id field
edit_journal_entry(user_id, entry_id, method, course_id) ==
    LET found == {je \in journal_entries : je.id = entry_id /\ je.user_id = user_id}
        entry == CHOOSE je \in found : TRUE
        linked == Truthy(course_id)
        course_ref == IF linked /\ course_id[1] \in IntStrings
                      THEN Some(IntOfString[course_id[1]]) ELSE None
    IN /\ UNCHANGED <<mig, conns, users, courses, holes, scores, next_hole_id, next_entry_id, now>>
       /\ IF found = {}
          THEN /\ resp' = [handler |-> "edit_journal_entry", status |-> 404]
               /\ UNCHANGED journal_entries
          ELSE IF method = "POST"
          THEN IF linked /\ (course_ref = None \/ \A c \in courses : c.id # course_ref[1])
               THEN \* FOREIGN KEY (course_id) REFERENCES courses (id) fails
                    /\ resp' = [handler |-> "edit_journal_entry", status |-> 500]
                    /\ UNCHANGED journal_entries
               ELSE \* UPDATE journal_entries SET course_id = ?, ... ; the scores
                    \* table is not touched
                    /\ journal_entries' =
                          (journal_entries \ {entry}) \cup
                          {[id |-> entry.id,
                            entry_date |-> entry.entry_date,
                            course_id |-> course_ref,
                            user_id |-> entry.user_id]}
                    /\ resp' = [handler |-> "edit_journal_entry", status |-> 302,
                                location |-> "journal_details",
                                journal_entry_id |-> entry_id]
          ELSE /\ resp' = [handler |-> "edit_journal_entry", status |-> 200,
                           journal_entry_id |-> entry_id]
               /\ UNCHANGED journal_entries

\* POST /journal/<entry_id>/delete
delete_journal_entry(user_id, entry_id) ==
    LET found == {je \in journal_entries : je.id = entry_id /\ je.user_id = user_id}
    IN /\ UNCHANGED <<mig, conns, users, courses, holes, next_hole_id, next_entry_id, now>>
       /\ IF found = {}
          THEN /\ resp' = [handler |-> "delete_journal_entry", status |-> 404,
                           request |-> [user_id |-> user_id,
                                        entry_id |-> entry_id]]
               /\ UNCHANGED <<journal_entries, scores>>
          ELSE \* Delete scores first
               /\ scores' = {sc \in scores : sc.journal_entry_id # entry_id}
               /\ journal_entries' = journal_entries \ found
               /\ resp' = [handler |-> "delete_journal_entry", status |-> 302,
                           location |-> "journal_list",
                           request |-> [user_id |-> user_id,
                                        entry_id |-> entry_id]]

(***************************************************************************)
(* The two replacements statement by statement.  A request in progress     *)
(* holds a connection; conns[c] is its position (pc), what it is about to  *)
(* insert (rows, of which done are inserted) and, inside a transaction,    *)
(* its uncommitted copy of the table it writes (table, next_id).           *)
(***************************************************************************)
\* sqlite3.connect with isolation_level=None: every statement is committed
\* as it is executed
isolation_level_none == None

\* sqlite3.connect(...) without isolation_level: the default "", with which
\* the first DELETE or INSERT opens a transaction that db.commit() ends
isolation_level == Some("")

\* the requests the server handles at the same time
ConnIds == {1, 2}

\* a connection with no request
conn_idle == [pc |-> "idle", handler |-> "", request |-> <<>>, rows |-> <<>>,
              done |-> 0, table |-> {}, next_id |-> 0]

\* a connection holds the write lock from its first write to its commit
write_locked(c) ==
    isolation_level # None /\ \E d \in ConnIds \ {c} : conns[d].pc = "writing"

\* the table a connection's statements see and change
own_table(c) ==
    IF isolation_level # None THEN conns[c].table
    ELSE IF conns[c].handler = "add_scorecard" THEN scores ELSE holes

\* the effect of a write statement of connection c that leaves its table as
\* T and the rowid counter of holes as next_id
statement(c, T, done, next_id) ==
    IF isolation_level # None
    THEN /\ conns' = [conns EXCEPT ![c] = [@ EXCEPT !.pc = "writing", !.done = done,
                                                     !.table = T, !.next_id = next_id]]
         /\ UNCHANGED <<scores, holes, next_hole_id>>
    ELSE /\ conns' = [conns EXCEPT ![c] = [@ EXCEPT !.pc = "writing", !.done = done]]
         /\ IF conns[c].handler = "add_scorecard"
            THEN scores' = T /\ UNCHANGED <<holes, next_hole_id>>
            ELSE holes' = T /\ next_hole_id' = next_id /\ UNCHANGED scores

\* add_scorecard POST up to its DELETE: the lookups and the validation loop.
\* A submission that is not accepted is answered at once.
begin_add_scorecard(c, user_id, journal_entry_id, form) ==
    LET found == {je \in journal_entries :
                     /\ je.id = journal_entry_id
                     /\ je.user_id = user_id
                     /\ je.course_id # None
                     /\ \E co \in courses : co.id = je.course_id[1]}
        course_id == (CHOOSE je \in found : TRUE).course_id[1]
        hs == course_holes(course_id)
        filled == {i \in (1 .. 18) \cap DOMAIN form : form[i] # ""}
        hole_score_int(i) == parse_int(form[i], Some(1), None)
        stored == SortedAsc(SortedDescInts({i \in filled : \E h \in hs : h.hole_number = i}))
        scores_to_insert ==
            [k \in 1 .. Len(stored) |->
                [journal_entry_id |-> journal_entry_id,
                 hole_id |-> (CHOOSE h \in hs : h.hole_number = stored[k]).id,
                 score |-> hole_score_int(stored[k]).value]]
    IN /\ conns[c].pc = "idle"
       /\ IF found = {} \/ no_holes(hs) \/ \E i \in filled : ~hole_score_int(i).ok
          THEN add_scorecard(user_id, journal_entry_id, "POST", form)
          ELSE /\ conns' = [conns EXCEPT ![c] =
                               [pc |-> "validated", handler |-> "add_scorecard",
                                request |-> [user_id |-> user_id,
                                             journal_entry_id |-> journal_entry_id,
                                             course_id |-> course_id, form |-> form],
                                rows |-> scores_to_insert,
                                done |-> 0, table |-> {}, next_id |-> 0]]
               /\ UNCHANGED <<mig, users, courses, holes, journal_entries, scores,
                              next_hole_id, next_entry_id, now, resp>>

\* add_holes_to_course POST up to its DELETE: the admin check, the course
\* lookup and the parsing loop
begin_add_holes_to_course(c, user_id, course_id, form) ==
    LET filled == {i \in (1 .. 18) \cap DOMAIN form : form[i].par # ""}
        par_int(i) == parse_int(form[i].par, Some(1), Some(7))
        distance_int(i) == parse_int(form[i].distance, Some(0), None)
        invalid == {i \in filled :
                       \/ ~par_int(i).ok
                       \/ form[i].distance # "" /\ ~distance_int(i).ok}
        numbers == SortedAsc(SortedDescInts(filled))
        holes_to_insert ==
            [k \in 1 .. Len(numbers) |->
                [course_id |-> course_id,
                 hole_number |-> numbers[k],
                 par |-> par_int(numbers[k]).value,
                 distance |-> IF form[numbers[k]].distance # ""
                              THEN Some(distance_int(numbers[k]).value) ELSE None]]
    IN /\ conns[c].pc = "idle"
       /\ IF \/ ~require_admin(user_id)
             \/ \A co \in courses : co.id # course_id
             \/ invalid # {}
          THEN add_holes_to_course(user_id, course_id, "POST", form)
          ELSE /\ conns' = [conns EXCEPT ![c] =
                               [pc |-> "validated", handler |-> "add_holes_to_course",
                                request |-> [user_id |-> user_id, course_id |-> course_id,
                                             method |-> "POST", form |-> form],
                                rows |-> holes_to_insert,
                                done |-> 0, table |-> {}, next_id |-> 0]]
               /\ UNCHANGED <<mig, users, courses, holes, journal_entries, scores,
                              next_hole_id, next_entry_id, now, resp>>

\* db.execute('DELETE FROM ...'): the first write of the request; it waits
\* while another connection holds the write lock
execute_delete(c) ==
    /\ conns[c].pc = "validated"
    /\ ~write_locked(c)
    /\ IF conns[c].handler = "add_scorecard"
       THEN statement(c, delete_scores(conns[c].request.journal_entry_id), 0, 0)
       ELSE statement(c, delete_holes(conns[c].request.course_id), 0, next_hole_id)
    /\ UNCHANGED <<mig, users, courses, journal_entries, next_entry_id, now, resp>>

\* INSERT INTO scores: the table takes the row whether or not its journal
\* entry and its hole exist
insert_score(T, row) == T \cup {row}

\* db.executemany('INSERT INTO ...'), one row of it
execute_insert(c) ==
    /\ conns[c].pc = "writing"
    /\ conns[c].done < Len(conns[c].rows)
    /\ LET row == conns[c].rows[conns[c].done + 1]
           next_id == IF isolation_level # None THEN conns[c].next_id
                      ELSE next_hole_id
       IN IF conns[c].handler = "add_scorecard"
          THEN statement(c, insert_score(own_table(c), row), conns[c].done + 1, 0)
          ELSE statement(c, own_table(c) \cup
                               {[id |-> next_id,
                                 course_id |-> row.course_id,
                                 hole_number |-> row.hole_number,
                                 par |-> row.par,
                                 distance |-> row.distance]},
                         conns[c].done + 1, next_id + 1)
    /\ UNCHANGED <<mig, users, courses, journal_entries, next_entry_id, now, resp>>

\* db.commit() and the redirect
commit(c) ==
    /\ conns[c].pc = "writing"
    /\ conns[c].done = Len(conns[c].rows)
    /\ conns' = [conns EXCEPT ![c] = conn_idle]
    /\ IF isolation_level = None
       THEN UNCHANGED <<scores, holes, next_hole_id>>
       ELSE IF conns[c].handler = "add_scorecard"
       THEN scores' = conns[c].table /\ UNCHANGED <<holes, next_hole_id>>
       ELSE /\ holes' = conns[c].table
            /\ next_hole_id' = conns[c].next_id
            /\ UNCHANGED scores
    /\ resp' = IF conns[c].handler = "add_scorecard"
               THEN [handler |-> "add_scorecard", status |-> 302,
                     location |-> "journal_details",
                     journal_entry_id |-> conns[c].request.journal_entry_id,
                     course_id |-> conns[c].request.course_id,
                     request |-> [user_id |-> conns[c].request.user_id,
                                  form |-> conns[c].request.form]]
               ELSE [handler |-> "add_holes_to_course", status |-> 302,
                     location |-> "course_list",
                     request |-> conns[c].request]
    /\ UNCHANGED <<mig, users, courses, journal_entries, next_entry_id, now>>

\* a write statement raises (the database is locked, an INSERT fails): the
\* request ends with a server error and close_db closes the connection,
\* which rolls back what it had not committed
statement_fails(c) ==
    /\ \/ conns[c].pc = "validated" /\ write_locked(c)
       \/ conns[c].pc = "writing"
    /\ conns' = [conns EXCEPT ![c] = conn_idle]
    /\ resp' = [handler |-> conns[c].handler, status |-> 500,
                request |-> conns[c].request]
    /\ UNCHANGED <<mig, users, courses, holes, journal_entries, scores,
                   next_hole_id, next_entry_id, now>>

\* the server process dies: every request in progress is gone, and what
\* was not committed is rolled back when the database is opened again
crash ==
    /\ \E c \in ConnIds : conns[c].pc # "idle"
    /\ conns' = [c \in ConnIds |-> conn_idle]
    /\ resp' = [handler |-> "none", status |-> 0]
    /\ UNCHANGED <<mig, users, courses, holes, journal_entries, scores,
                   next_hole_id, next_entry_id, now>>

(***************************************************************************)
(* The migrations and the migrate-db command                               *)
(***************************************************************************)
\* the migrations directory: each file with the number its name starts with
\* and its MIGRATION_ID
migrations_dir ==
    {[key |-> 1, migration_id |-> "0001_add_users_and_columns"],
     [key |-> 2, migration_id |-> "0002_enforce_user_id_not_null"],
     [key |-> 3, migration_id |-> "0003_add_hole_distance"]}

MigrationIds == {f.migration_id : f \in migrations_dir}

\* sorted(migrations_dir.glob('*.py')): the files in ascending order of name
sorted_paths ==
    CHOOSE s \in [1..Cardinality(migrations_dir) -> migrations_dir] :
        \A i, j \in 1..Cardinality(migrations_dir) :
            i < j => s[i].key < s[j].key

\* a statement of an upgrade
stmt(op, arg) == [op |-> op, arg |-> arg]

\* the statements of a table rebuild of 0002: the new table with user_id
\* NOT NULL, the copy of the rows, the drop of the old table and the rename
rebuild(table) ==
    <<stmt("create_new", table), stmt("copy", table),
      stmt("drop", table), stmt("rename", table)>>

\* upgrade(conn) of each migration, statement by statement; every upgrade
\* ends with its own conn.commit().  The PRAGMA foreign_keys statements of
\* 0002 change no schema and are left out.
upgrade(migration_id) ==
    CASE migration_id = "0001_add_users_and_columns" ->
           <<stmt("add_column", "courses.website_url"),
             stmt("add_column", "sessions.user_id"),
             stmt("add_column", "journal_entries.user_id"),
             stmt("create_users", "users"),
             stmt("commit", "")>>
      [] migration_id = "0002_enforce_user_id_not_null" ->
           <<stmt("check_user_id", "")>> \o rebuild("sessions")
               \o rebuild("journal_entries") \o <<stmt("commit", "")>>
      [] migration_id = "0003_add_hole_distance" ->
           <<stmt("add_column", "holes.distance"), stmt("commit", "")>>

\* the schema after one statement: columns are added when column_exists
\* says they are missing, users is created when table_exists says so
execute(st, schema) ==
    CASE st.op = "add_column" ->
           IF st.arg \in schema THEN schema ELSE schema \cup {st.arg}
      [] st.op = "create_users" ->
           IF "users" \notin schema
           THEN schema \cup {"users", "users.is_admin"}
           ELSE schema \cup {"users.is_admin"}
      [] st.op = "create_new" -> schema \cup {st.arg \o "_new"}
      [] st.op = "drop" ->
           schema \ {st.arg, st.arg \o ".user_id", st.arg \o ".user_id NOT NULL"}
      [] st.op = "rename" ->
           (schema \ {st.arg \o "_new"})
               \cup {st.arg, st.arg \o ".user_id", st.arg \o ".user_id NOT NULL"}
      [] OTHER -> schema

\* the statement writes to the database: a skipped ALTER TABLE does not
writes(st, schema) ==
    \/ st.op \in {"create_new", "copy", "drop", "rename"}
    \/ execute(st, schema) # schema

\* 0002 raises RuntimeError when a row of sessions or journal_entries has
\* no user_id: the rows that were there before 0001 added the column
raises(st, m) == st.op = "check_user_id" /\ m.legacy_rows

\* the schema changes of each migration
changes(migration_id) ==
    CASE migration_id = "0001_add_users_and_columns" ->
           {"courses.website_url", "sessions.user_id",
            "journal_entries.user_id", "users", "users.is_admin"}
      [] migration_id = "0002_enforce_user_id_not_null" ->
           {"sessions.user_id NOT NULL", "journal_entries.user_id NOT NULL"}
      [] migration_id = "0003_add_hole_distance" -> {"holes.distance"}

\* the tables of a database from before the migrations
legacy_schema == {"courses", "sessions", "journal_entries", "holes"}

\* no migrate-db command is running
at_rest(schema, schema_migrations, legacy_rows) ==
    [schema |-> schema, schema_migrations |-> schema_migrations,
     legacy_rows |-> legacy_rows, pc |-> "idle", path |-> 0, applied |-> {},
     statement |-> 0, txn_schema |-> {}, txn_migrations |-> {},
     written |-> FALSE, runs |-> 0, upgraded |-> [id \in MigrationIds |-> 0], log |-> <<>>,
     failed |-> FALSE]

\* a database on which migrate-db has applied every migration
migrated == at_rest(legacy_schema \cup UNION {changes(id) : id \in MigrationIds},
                    MigrationIds, FALSE)

\* the number of migrate-db runs
MaxRuns == 3

app_vars == <<users, courses, holes, journal_entries, scores,
              next_hole_id, next_entry_id, now, resp, conns>>

\* migrate-db starts: the table schema_migrations is there, and the ids
\* in it are read once
migrate_db_command ==
    /\ mig.pc = "idle"
    /\ mig.runs < MaxRuns
    /\ mig' = [mig EXCEPT !.pc = "loop", !.path = 1,
                          !.applied = mig.schema_migrations,
                          !.runs = @ + 1, !.log = <<>>, !.failed = FALSE]
    /\ UNCHANGED app_vars

\* the head of the loop over the sorted files: an applied migration is
\* skipped, another one begins its transaction
next_migration ==
    /\ mig.pc = "loop"
    /\ mig' = IF mig.path > Len(sorted_paths)
              THEN [mig EXCEPT !.pc = "idle", !.path = 0, !.applied = {}]
              ELSE IF sorted_paths[mig.path].migration_id \in mig.applied
              THEN [mig EXCEPT !.path = @ + 1]
              ELSE [mig EXCEPT !.pc = "upgrade", !.statement = 1,
                               !.txn_schema = mig.schema,
                               !.written = FALSE]
    /\ UNCHANGED app_vars

\* the run ends with an exception: db.rollback() drops what is not
\* committed, and the exception is raised again
rolled_back(m) ==
    [m EXCEPT !.pc = "idle", !.path = 0, !.applied = {}, !.statement = 0,
              !.txn_schema = {}, !.txn_migrations = {}, !.written = FALSE,
              !.failed = TRUE]

\* one statement of module.upgrade(db); its conn.commit() commits the
\* schema changes of the transaction.  mig.upgraded counts, and mig.log
\* lists, the upgrades that committed a write.
upgrade_statement ==
    /\ mig.pc = "upgrade"
    /\ LET migration_id == sorted_paths[mig.path].migration_id
           st == upgrade(migration_id)[mig.statement]
       IN mig' = IF raises(st, mig)
                 THEN rolled_back(mig)
                 ELSE IF st.op = "commit"
                 THEN [mig EXCEPT !.schema = mig.txn_schema,
                                  !.txn_schema = {}, !.statement = 0,
                                  !.pc = "insert", !.written = FALSE,
                                  !.upgraded[migration_id] =
                                      IF mig.written THEN @ + 1 ELSE @,
                                  !.log = IF mig.written
                                          THEN Append(@, migration_id)
                                          ELSE @]
                 ELSE [mig EXCEPT !.txn_schema = execute(st, @),
                                  !.statement = @ + 1,
                                  !.written = @ \/ writes(st, mig.txn_schema)]
    /\ UNCHANGED app_vars

\* INSERT INTO schema_migrations (id) VALUES (?)
insert_migration ==
    /\ mig.pc = "insert"
    /\ mig' = [mig EXCEPT !.pc = "commit",
                          !.txn_migrations = mig.schema_migrations
                              \cup {sorted_paths[mig.path].migration_id}]
    /\ UNCHANGED app_vars

\* db.commit() and the next file
commit_migration ==
    /\ mig.pc = "commit"
    /\ mig' = [mig EXCEPT !.pc = "loop", !.path = @ + 1,
                          !.schema_migrations = mig.txn_migrations,
                          !.txn_migrations = {}]
    /\ UNCHANGED app_vars

\* a statement of the upgrade or the INSERT raises (a locked database, a
\* table that cannot be dropped)
migration_raises ==
    /\ \/ mig.pc = "upgrade"
          /\ upgrade(sorted_paths[mig.path].migration_id)[mig.statement].op
                 # "commit"
       \/ mig.pc = "insert"
    /\ mig' = rolled_back(mig)
    /\ UNCHANGED app_vars

\* the process stops: what is not committed is gone
process_stops ==
    /\ mig.pc # "idle"
    /\ mig' = [rolled_back(mig) EXCEPT !.failed = FALSE]
    /\ UNCHANGED app_vars

(***************************************************************************)
(* The initial store and the requests                                      *)
(***************************************************************************)
\* the store after init-db (the three seeded courses; course_rating in tenths)
\* with an admin account and one registered user
Init ==
    /\ users = {[id |-> 1, is_admin |-> TRUE], [id |-> 2, is_admin |-> FALSE]}
    /\ courses = {[id |-> 1, name |-> "Legacy Links", par |-> 72,
                   course_rating |-> 705, slope |-> 125],
                  [id |-> 2, name |-> "Steel Canyon", par |-> 71,
                   course_rating |-> 698, slope |-> 120],
                  [id |-> 3, name |-> "Fox Creek", par |-> 70,
                   course_rating |-> 682, slope |-> 115]}
    /\ holes = {}
    /\ journal_entries = {}
    /\ scores = {}
    /\ next_hole_id = 1
    /\ next_entry_id = 1
    /\ now = 0
    /\ resp = [handler |-> "none", status |-> 0]
    /\ conns = [c \in ConnIds |-> conn_idle]
    /\ mig = migrated

\* the accounts that send requests, and the courses they name
UserIds == {1, 2}

CourseIds == {1, 2}

\* who logs rounds where: user 1 on both courses, user 2 on course 1
EntryOwners == {<<1, 1>>, <<1, 2>>, <<2, 1>>}

\* the holes whose form fields are filled in: the last of the front nine and
\* the first of the back nine
HoleNumbers == {9, 10}

\* the forms with a field for each hole of H, the field for hole i carrying
\* one of texts[i]; "" is a blank field
Forms(H, texts) ==
    {f \in [H -> UNION {texts[i] : i \in H}] : \A i \in H : f[i] \in texts[i]}

ParTexts(i) == IF i <= 9 THEN {"", "4"} ELSE {"", "3"}

HoleForms ==
    {[i \in HoleNumbers |-> [par |-> p[i], distance |-> ""]] :
        p \in Forms(HoleNumbers, [i \in HoleNumbers |-> ParTexts(i)])}

NoScores == [i \in HoleNumbers |-> ""]

Views == {None, Some("best"), Some("best_to_par"), Some("average")}

(***************************************************************************)
(* Spec: holes are defined and redefined, rounds are logged by two users   *)
(* on two courses, scorecards are submitted and the course is viewed.      *)
(***************************************************************************)
MaxEntries == 1

MaxHoleId == 2

ScoreTexts(i) == IF i <= 9 THEN {"", "4"} ELSE {"", "3"}

AddHoles ==
    \E course_id \in CourseIds, form \in HoleForms :
        /\ next_hole_id + Cardinality({i \in DOMAIN form : form[i].par # ""})
              <= MaxHoleId + 1
        /\ add_holes_to_course(1, course_id, "POST", form)

AddEntry ==
    \E owner \in EntryOwners :
        /\ next_entry_id <= MaxEntries
        /\ add_journal_entry(owner[1], "POST", Some(ToString(owner[2])), now + 1)

\* the owner submits a scorecard; any user opens the scorecard form
AddScorecard ==
    \E je \in journal_entries :
        \/ \E form \in Forms(HoleNumbers, [i \in HoleNumbers |-> ScoreTexts(i)]) :
              add_scorecard(je.user_id, je.id, "POST", form)
        \/ \E user_id \in UserIds : add_scorecard(user_id, je.id, "GET", NoScores)

CourseDetails ==
    \E owner \in EntryOwners, view \in Views :
        course_details(owner[2], owner[1], None, None, view, Some("all"))

Next == AddHoles \/ AddEntry \/ AddScorecard \/ CourseDetails

Spec == Init /\ [][Next]_vars

(***************************************************************************)
(* SpecRounds: one user plays course 1, whose holes 8, 9 and 10 are        *)
(* defined once, and views the rounds in every view.                       *)
(***************************************************************************)
MaxRounds == 3

\* two holes of the front nine and one of the back nine
RoundHoles == {8, 9, 10}

\* hole 8 with par 5, hole 9 with par 4, hole 10 with par 3
RoundHoleForm ==
    [i \in RoundHoles |->
        [par |-> IF i = 8 THEN "5" ELSE IF i = 9 THEN "4" ELSE "3", distance |-> ""]]

\* the score fields of a submitted scorecard: hole 8 blank or 5, hole 9 blank,
\* 3 or 4, hole 10 always 4
RoundScoreTexts(i) ==
    IF i = 8 THEN {"", "5"} ELSE IF i = 9 THEN {"", "3", "4"} ELSE {"4"}

DefineHoles ==
    /\ next_hole_id = 1
    /\ add_holes_to_course(1, 1, "POST", RoundHoleForm)

AddRound ==
    /\ next_entry_id <= MaxRounds
    /\ add_journal_entry(1, "POST", Some("1"), now + 1)

SubmitScores ==
    \E je \in journal_entries,
       form \in Forms(RoundHoles, [i \in RoundHoles |-> RoundScoreTexts(i)]) :
        add_scorecard(1, je.id, "POST", form)

ViewRounds ==
    \E view \in Views,
       filter \in {<<None, Some("all")>>, <<None, Some("2")>>, <<Some("3"), Some("all")>>} :
        course_details(1, 1, None, filter[1], view, filter[2])

NextRounds == DefineHoles \/ AddRound \/ SubmitScores \/ ViewRounds

SpecRounds == Init /\ [][NextRounds]_vars

(***************************************************************************)
(* SpecFilter: rounds are logged at a few clock readings, several of them  *)
(* at the same one, and the course is viewed with year, month and limit.   *)
(***************************************************************************)
MaxFilterEntries == 3

\* clock readings: January 2023, February 2023, January 2024
Instants == {0, 1, 12}

AddDatedEntry ==
    \E owner \in EntryOwners, t \in Instants :
        /\ next_entry_id <= MaxFilterEntries
        /\ add_journal_entry(owner[1], "POST", Some(ToString(owner[2])), t)

ViewFiltered ==
    \E owner \in EntryOwners,
       year \in {None, Some("2023")},
       month \in {None, Some("1")},
       limit \in {Some("1"), Some("2")} :
        course_details(owner[2], owner[1], year, month, None, limit)

NextFilter == AddDatedEntry \/ ViewFiltered

SpecFilter == Init /\ [][NextFilter]_vars

(***************************************************************************)
(* SpecLimit: one user logs many rounds on course 1, one a month, and      *)
(* views the course without a limit parameter or with one that is no       *)
(* number.                                                                 *)
(***************************************************************************)
MaxManyEntries == 11

AddMonthlyEntry ==
    /\ next_entry_id <= MaxManyEntries
    /\ add_journal_entry(1, "POST", Some("1"), now + 1)

ViewUnlimited ==
    \E year \in {None, Some("2023")}, month \in {None, Some("3")},
       limit \in {None, Some("all"), Some("ALL"), Some("0"), Some("")} :
        course_details(1, 1, year, month, None, limit)

NextLimit == AddMonthlyEntry \/ ViewUnlimited

SpecLimit == Init /\ [][NextLimit]_vars

(***************************************************************************)
(* SpecJournal: course 1 gets holes 9 and 10 and course 2 hole 9 only,     *)
(* each once; rounds are logged, scored, moved to another course, deleted  *)
(* and read on their journal page.                                         *)
(***************************************************************************)
MaxJournalEntries == 2

\* the hole form of each course: both holes for course 1, hole 9 for course 2
JournalHoleForm(course_id) ==
    [i \in HoleNumbers |->
        [par |-> IF i <= 9 THEN "4" ELSE IF course_id = 1 THEN "3" ELSE "",
         distance |-> ""]]

DefineCourseHoles ==
    \E course_id \in CourseIds :
        /\ course_holes(course_id) = {}
        /\ add_holes_to_course(1, course_id, "POST", JournalHoleForm(course_id))

\* user 1 logs a round on course 1 or on course 2
LogEntry ==
    \E course_id \in CourseIds :
        /\ next_entry_id <= MaxJournalEntries
        /\ add_journal_entry(1, "POST", Some(ToString(course_id)), now + 1)

SubmitScorecard ==
    \E je \in journal_entries,
       form \in Forms(HoleNumbers, [i \in HoleNumbers |-> ScoreTexts(i)]) :
        add_scorecard(je.user_id, je.id, "POST", form)

EditEntry ==
    \E je \in journal_entries, course_id \in {Some(""), Some("1"), Some("2")} :
        edit_journal_entry(je.user_id, je.id, "POST", course_id)

DeleteEntry ==
    \E je \in journal_entries : delete_journal_entry(je.user_id, je.id)

ViewEntry ==
    \E je \in journal_entries, user_id \in UserIds : journal_details(user_id, je.id)

\* user 1 opens a course page with no date filter and no limit
ViewCourse ==
    \E course_id \in CourseIds :
        course_details(course_id, 1, None, None, None, Some("all"))

NextJournal ==
    \/ DefineCourseHoles
    \/ LogEntry
    \/ SubmitScorecard
    \/ EditEntry
    \/ DeleteEntry
    \/ ViewEntry
    \/ ViewCourse

SpecJournal == Init /\ [][NextJournal]_vars

(***************************************************************************)
(* SpecAdmin: the admin and an ordinary user send course forms and hole    *)
(* forms with valid and invalid fields, for a course that exists and one   *)
(* that does not; the ordinary user logs a round on course 1 and submits   *)
(* scorecards with valid and invalid scores.                               *)
(***************************************************************************)
\* a course that exists and an id no course has
AdminCourseIds == {1, 9}

Methods == {"GET", "POST"}

\* course forms: slope at and just outside its limits, par below its
\* minimum, a negative and a non-numeric course rating
CourseForms ==
    {[name |-> "Pine Hill", par |-> "72", course_rating |-> "70.5", slope |-> sl] :
         sl \in {"54", "55", "155", "156"}}
    \cup {[name |-> "Pine Hill", par |-> p, course_rating |-> cr, slope |-> "155"] :
             p \in {"72", "0"}, cr \in {"70.5", "-1.5", "abc"}}

\* hole forms: par at and above its maximum, a negative and a non-numeric
\* distance, each also in the field of a hole whose par is blank
AdminHoleForms ==
    {[i \in HoleNumbers |->
         IF i <= 9 THEN [par |-> f[1], distance |-> f[2]]
         ELSE [par |-> f[3], distance |-> f[4]]] :
        f \in {<<"7", "0", "7", "">>, <<"", "", "7", "">>,
               <<"7", "", "8", "">>, <<"7", "0", "7", "-1">>,
               <<"7", "x", "7", "">>, <<"7", "", "", "x">>,
               <<"", "-1", "", "">>}}

\* score texts: a score, a blank, a score below 1 and one that is no number
AdminScoreTexts == {"", "4", "0", "x"}

AdminAddCourse ==
    \E user_id \in UserIds, method \in Methods, form \in CourseForms :
        /\ \A c \in courses : c.name # form.name
        /\ add_course(user_id, method, form)

AdminEditCourse ==
    \E user_id \in UserIds, course_id \in AdminCourseIds, method \in Methods,
       form \in CourseForms :
        edit_course(user_id, course_id, method, form)

AdminDefineHoles ==
    \E user_id \in UserIds, course_id \in AdminCourseIds, method \in Methods,
       form \in AdminHoleForms :
        /\ next_hole_id <= MaxHoleId
        /\ add_holes_to_course(user_id, course_id, method, form)

\* the ordinary user logs one round on course 1
AdminLogEntry ==
    /\ journal_entries = {}
    /\ add_journal_entry(2, "POST", Some("1"), now + 1)

AdminSubmitScores ==
    \E je \in journal_entries, form \in [HoleNumbers -> AdminScoreTexts] :
        add_scorecard(je.user_id, je.id, "POST", form)

NextAdmin ==
    \/ AdminAddCourse
    \/ AdminEditCourse
    \/ AdminDefineHoles
    \/ AdminLogEntry
    \/ AdminSubmitScores

SpecAdmin == Init /\ [][NextAdmin]_vars

(***************************************************************************)
(* SpecTxn: user 1 logs a round on course 1; two connections define and    *)
(* redefine the holes of the course and submit scorecards for the round    *)
(* statement by statement, interleaved, with failing statements and        *)
(* crashes, while the journal page is read.                                *)
(***************************************************************************)
MaxTxnHoleId == 4

AllIdle == \A c \in ConnIds : conns[c].pc = "idle"

\* score forms for hole 9: two different scores, a blank and a score below 1
TxnScoreForms == {[i \in {9} |-> t] : t \in {"", "4", "5", "0"}}

\* hole forms: hole 9 alone, or holes 9 and 10
TxnHoleForms ==
    {[i \in HoleNumbers |->
         [par |-> IF i <= 9 THEN "4" ELSE p, distance |-> ""]] : p \in {"", "3"}}

\* user 1 logs one round on course 1
TxnLogEntry ==
    /\ AllIdle
    /\ journal_entries = {}
    /\ add_journal_entry(1, "POST", Some("1"), now + 1)

TxnBeginScorecard ==
    \E c \in ConnIds, je \in journal_entries, form \in TxnScoreForms :
        begin_add_scorecard(c, je.user_id, je.id, form)

TxnBeginHoles ==
    \E c \in ConnIds, form \in TxnHoleForms :
        /\ next_hole_id <= MaxTxnHoleId
        /\ begin_add_holes_to_course(c, 1, 1, form)

TxnDelete == \E c \in ConnIds : execute_delete(c)

TxnInsert == \E c \in ConnIds : execute_insert(c)

TxnCommit == \E c \in ConnIds : commit(c)

TxnFail == \E c \in ConnIds : statement_fails(c)

TxnCrash == crash

TxnView == \E je \in journal_entries : journal_details(je.user_id, je.id)

NextTxn ==
    \/ TxnLogEntry
    \/ TxnBeginScorecard
    \/ TxnBeginHoles
    \/ TxnDelete
    \/ TxnInsert
    \/ TxnCommit
    \/ TxnFail
    \/ TxnCrash
    \/ TxnView

SpecTxn == Init /\ [][NextTxn]_vars

(***************************************************************************)
(* Properties.  They read the store directly, not through the operators    *)
(* the handlers use.  resp is the response of the last request and a       *)
(* course_details request writes nothing, so when resp is its response the *)
(* store is the one it was computed from.                                  *)
(***************************************************************************)
\* the last request was a course_details that returned the detail page
DetailShown == resp.handler = "course_details" /\ resp.status = 200

\* the rows of the detail page that stand for journal entries
EntryRowsShown ==
    {resp.candidates[i] : i \in 1 .. Len(resp.candidates)} \cup
    (IF resp.selected_view = "average" THEN {}
     ELSE {resp.entry_rows[i] : i \in 1 .. Len(resp.entry_rows)})

\* the Score rows of entry e on the holes of course c whose number is in lo..hi
RoundScores(e, c, lo, hi) ==
    {s \in scores :
        /\ s.journal_entry_id = e
        /\ \E h \in holes :
              h.id = s.hole_id /\ h.course_id = c /\ h.hole_number \in lo .. hi}

RECURSIVE SumOfScores(_)
SumOfScores(S) ==
    IF S = {} THEN 0
    ELSE LET s == CHOOSE s \in S : TRUE IN s.score + SumOfScores(S \ {s})

RECURSIVE ParOfHoles(_, _, _)
\* the par of the holes of course c numbered lo..hi, added hole number by hole number
ParOfHoles(c, lo, hi) ==
    IF lo > hi THEN 0
    ELSE SumOfScores({[score |-> h.par, id |-> h.id] :
                         h \in {h \in holes : h.course_id = c /\ h.hole_number = lo}})
         + ParOfHoles(c, lo + 1, hi)

\* C1 as claimed: out_total of an entry row is the sum of the entry's scores on
\* holes 1..9 and None whenever it has no score there; in_total likewise for
\* holes 10..18.
C1_OutInNoneWhenNineEmpty ==
    DetailShown =>
        \A row \in EntryRowsShown :
            LET front == RoundScores(row.id[1], resp.course_id, 1, 9)
                back == RoundScores(row.id[1], resp.course_id, 10, 18)
            IN /\ row.out_total = IF front = {} THEN None ELSE Some(SumOfScores(front))
               /\ row.in_total = IF back = {} THEN None ELSE Some(SumOfScores(back))

\* C1 amended: out_total and in_total are None only when the entry has no score
\* on any hole of the course; otherwise out_total is the sum of its scores on
\* holes 1..9 and in_total the sum on holes 10..18, 0 for a nine without a score.
C1_OutInTotals ==
    DetailShown =>
        \A row \in EntryRowsShown :
            LET front == RoundScores(row.id[1], resp.course_id, 1, 9)
                back == RoundScores(row.id[1], resp.course_id, 10, 18)
            IN IF front \cup back = {}
               THEN row.out_total = None /\ row.in_total = None
               ELSE /\ row.out_total = Some(SumOfScores(front))
                    /\ row.in_total = Some(SumOfScores(back))

\* C1 witness: a row of an entry scored on the back nine only, its out_total 0
C1_BackNineOnly ==
    /\ DetailShown
    /\ \E row \in EntryRowsShown :
          /\ RoundScores(row.id[1], resp.course_id, 1, 9) = {}
          /\ RoundScores(row.id[1], resp.course_id, 10, 18) # {}
          /\ row.out_total = Some(0)
          /\ row.in_total # None /\ row.in_total[1] > 0

\* C2: total of an entry row is defined exactly when the entry has a score on a
\* hole of the course and is then the sum of those scores, to_par being
\* total - par_total with par_total the par of all the course's holes; an
\* undefined total comes with an undefined to_par.
C2_TotalAndToPar ==
    DetailShown =>
        \A row \in EntryRowsShown :
            LET recorded == RoundScores(row.id[1], resp.course_id, 1, 18)
            IN /\ (row.total # None) <=> (recorded # {})
               /\ recorded # {} =>
                     /\ row.total = Some(SumOfScores(recorded))
                     /\ row.to_par = Some(SumOfScores(recorded)
                                          - ParOfHoles(resp.course_id, 1, 18))
               /\ recorded = {} => row.to_par = None /\ row.to_par # Some(0)

\* C2 witness: a partially scored round (one of two holes) with its total and
\* to_par
C2_PartialRound ==
    /\ DetailShown
    /\ Cardinality({h \in holes : h.course_id = resp.course_id}) = 2
    /\ \E row \in EntryRowsShown :
          /\ Cardinality(RoundScores(row.id[1], resp.course_id, 1, 18)) = 1
          /\ row.total # None
          /\ row.to_par # None /\ row.to_par[1] < 0

\* the last request returned a page that carries the three pars
ParsShown ==
    \/ DetailShown
    \/ resp.handler = "add_scorecard" /\ resp.status = 200

\* C3: par_total = par_out + par_in, par_out being the par of exactly the holes
\* 1..9 of the course and par_in that of exactly the holes 10..18, so that
\* par_total is the par of every hole counted once.
C3_ParPartition ==
    ParsShown =>
        /\ resp.par_total = resp.par_out + resp.par_in
        /\ resp.par_out = ParOfHoles(resp.course_id, 1, 9)
        /\ resp.par_in = ParOfHoles(resp.course_id, 10, 18)
        /\ resp.par_total = ParOfHoles(resp.course_id, 1, 18)

\* C3 witness: the pars of a course with a hole in each nine
C3_BothNines ==
    /\ ParsShown
    /\ resp.par_out > 0
    /\ resp.par_in > 0
    /\ resp.par_total = resp.par_out + resp.par_in

Requested ==
    {je \in journal_entries :
        /\ je.user_id = resp.user_id
        /\ je.course_id = Some(resp.course_id)
        /\ resp.request.year \notin {None, Some("")} =>
              \E y \in 2023 .. 2030 :
                  /\ ToString(y) = resp.request.year[1]
                  /\ je.entry_date \in 12 * (y - 2023) .. 12 * (y - 2023) + 11
        /\ resp.request.month \notin {None, Some("")} =>
              (je.entry_date % 12) + 1 = IntOfString[resp.request.month[1]]}

\* the ids of the rows of the detail page, in order
ShownIds == [i \in 1 .. Len(resp.entry_rows) |-> resp.entry_rows[i].id[1]]

\* the journal entry with the given id
EntryOfId(id) == CHOOSE je \in journal_entries : je.id = id

\* the rows of the page are exactly the requested entries, each once
AllRequestedShown ==
    /\ Len(resp.entry_rows) = Cardinality(Requested)
    /\ {ShownIds[i] : i \in 1 .. Len(ShownIds)} = {je.id : je \in Requested}

\* the rows of the page are the n most recent requested entries, each once
MostRecentShown(n) ==
    /\ Len(resp.entry_rows) = Min(n, Cardinality(Requested))
    /\ \A i, j \in 1 .. Len(ShownIds) : i # j => ShownIds[i] # ShownIds[j]
    /\ \A i \in 1 .. Len(ShownIds) : \E je \in Requested : je.id = ShownIds[i]
    /\ \A i \in 1 .. Len(ShownIds) : \A je \in Requested :
          je.id \notin {ShownIds[k] : k \in 1 .. Len(ShownIds)} =>
              je.entry_date <= EntryOfId(ShownIds[i]).entry_date

\* C4 as claimed: without a limit argument, or with limit "all" or "0", every
\* requested entry is on the page, however many there are.
C4_NoLimitNoTruncation ==
    (DetailShown /\ resp.request.view = None
        /\ resp.request.limit \in {None, Some("all"), Some("0")})
    => AllRequestedShown

\* C4 amended: with limit "all" (in any letter case), "0" or the empty string
\* every requested entry is on the page, however many there are; without a
\* limit argument the page has the 10 most recent requested entries and no more.
C4_UnlimitedOrDefaultTen ==
    /\ (DetailShown /\ resp.request.view = None
           /\ resp.request.limit \in {Some("all"), Some("ALL"), Some("0"), Some("")})
       => AllRequestedShown
    /\ (DetailShown /\ resp.request.view = None /\ resp.request.limit = None)
       => MostRecentShown(10)

\* C4 witness: eleven requested entries, all eleven on the page under limit "0"
C4_ElevenShown ==
    /\ DetailShown
    /\ resp.request.limit = Some("0")
    /\ Cardinality(Requested) > 10
    /\ Len(resp.entry_rows) = Cardinality(Requested)

\* C5: with a limit N >= 1 and view all, the page has at most N rows (N, or
\* all the requested entries when there are fewer); every row is an entry of
\* the user for the course dated in the requested year and month; the rows are
\* in descending entry_date order; no requested entry left out is more recent
\* than one on the page.
C5_LimitDateFilterOrder ==
    (/\ DetailShown
     /\ resp.request.view = None
     /\ resp.request.limit # None
     /\ resp.request.limit[1] \in IntStrings
     /\ IntOfString[resp.request.limit[1]] >= 1)
    => /\ Len(resp.entry_rows) <= IntOfString[resp.request.limit[1]]
       /\ MostRecentShown(IntOfString[resp.request.limit[1]])
       /\ \A i, j \in 1 .. Len(ShownIds) :
             i < j => EntryOfId(ShownIds[i]).entry_date
                         >= EntryOfId(ShownIds[j]).entry_date

\* C5 witness: year 2023 and limit 1 with two entries of 2023 at different
\* dates and one of 2024: the page has the later entry of 2023 only
C5_OneOfTwoInYear ==
    /\ DetailShown
    /\ resp.request.year = Some("2023")
    /\ resp.request.month = None
    /\ resp.request.limit = Some("1")
    /\ Len(resp.entry_rows) = 1
    /\ Cardinality(Requested) = 2
    /\ \E je \in Requested : je.entry_date < EntryOfId(ShownIds[1]).entry_date
    /\ \E je \in journal_entries :
          /\ je.user_id = resp.user_id
          /\ je.course_id = Some(resp.course_id)
          /\ je.entry_date > EntryOfId(ShownIds[1]).entry_date

\* the number of rows the limit argument allows
RequestedLimit ==
    IF resp.request.limit = None THEN 10
    ELSE IF resp.request.limit \in {Some("all"), Some("ALL"), Some("0"), Some("")}
    THEN Cardinality(journal_entries)
    ELSE IntOfString[resp.request.limit[1]]

\* the candidate entries: the requested entries that the limit keeps, the most
\* recent ones (for requested entries of distinct dates)
Candidates ==
    {je \in Requested :
        Cardinality({f \in Requested : f.entry_date > je.entry_date}) < RequestedLimit}

\* the entry has a score on a hole of the course
Scored(je) == RoundScores(je.id, resp.course_id, 1, 18) # {}

\* the sum of the entry's scores on the holes of the course
RoundTotal(je) == SumOfScores(RoundScores(je.id, resp.course_id, 1, 18))

\* the candidates whose total is defined and is the least defined total
BestCandidates ==
    {je \in Candidates :
        /\ Scored(je)
        /\ \A f \in Candidates : Scored(f) => RoundTotal(je) <= RoundTotal(f)}

\* the candidates whose total minus the course's par is defined and least
BestToParCandidates ==
    {je \in Candidates :
        /\ Scored(je)
        /\ \A f \in Candidates :
              Scored(f) => RoundTotal(je) - ParOfHoles(resp.course_id, 1, 18)
                              <= RoundTotal(f) - ParOfHoles(resp.course_id, 1, 18)}

\* the rows of the page are exactly the entries of E, each once
ExactlyShown(E) ==
    /\ Len(resp.entry_rows) = Cardinality(E)
    /\ {ShownIds[i] : i \in 1 .. Len(ShownIds)} = {je.id : je \in E}

\* C6: with view=best the page has exactly the candidates whose total is
\* defined and equals the least defined total of the candidates, every tie
\* included, and is empty only when no candidate has a total; with
\* view=best_to_par the same holds of to_par.
C6_BestViews ==
    /\ (DetailShown /\ resp.selected_view = "best") =>
          /\ ExactlyShown(BestCandidates)
          /\ (resp.entry_rows = <<>>) <=> (\A je \in Candidates : ~Scored(je))
    /\ (DetailShown /\ resp.selected_view = "best_to_par") =>
          /\ ExactlyShown(BestToParCandidates)
          /\ (resp.entry_rows = <<>>) <=> (\A je \in Candidates : ~Scored(je))

\* C6 witness: view=best over three candidates, two tying on the least total
\* and kept, one with a larger total left out
C6_TieKept ==
    /\ DetailShown
    /\ resp.selected_view = "best"
    /\ Cardinality(Candidates) = 3
    /\ Len(resp.entry_rows) = 2
    /\ resp.entry_rows[1].total = resp.entry_rows[2].total
    /\ \E je \in Candidates : Scored(je) /\ Some(RoundTotal(je)) # resp.entry_rows[1].total

\* C7 as claimed: there are stored scores and pars for which an entry row has
\* is_best true and is_best_to_par false, and ones for which a row has is_best
\* false and is_best_to_par true.  The stored data range over three entries
\* with any scores 3..5 on any of holes 9 and 10, and over a course par of
\* 0..8 or the par of the holes course 1 has now.
C7_FlagsIndependent ==
    LET ScoreDicts == UNION {[H -> 3 .. 5] : H \in SUBSET {9, 10}}
        Pars == (0 .. 8) \cup {ParOfHoles(1, 1, 18)}
        RowsOf(by_entry, par) ==
            with_best_flags([i \in 1 .. 3 |->
                entry_row([id |-> i, entry_date |-> i], by_entry, par)])
    IN /\ \E by_entry \in [1 .. 3 -> ScoreDicts], par \in Pars :
             \E rows \in {RowsOf(by_entry, par)} :
                 \E i \in 1 .. 3 : rows[i].is_best /\ ~rows[i].is_best_to_par
       /\ \E by_entry \in [1 .. 3 -> ScoreDicts], par \in Pars :
             \E rows \in {RowsOf(by_entry, par)} :
                 \E i \in 1 .. 3 : ~rows[i].is_best /\ rows[i].is_best_to_par

\* C7 amended: the flags is_best and is_best_to_par of a row are never
\* different: each row of a detail page, before and after the view is
\* applied, has both true or both false.
C7_FlagsCoincide ==
    DetailShown =>
        /\ \A i \in 1 .. Len(resp.candidates) :
              resp.candidates[i].is_best = resp.candidates[i].is_best_to_par
        /\ \A i \in 1 .. Len(resp.entry_rows) :
              resp.entry_rows[i].is_best = resp.entry_rows[i].is_best_to_par

\* C7 witness: a page with a row that has both flags and a scored row that has
\* neither
C7_BothAndNeither ==
    /\ DetailShown
    /\ resp.request.view = None
    /\ \E i \in 1 .. Len(resp.entry_rows) :
          resp.entry_rows[i].is_best /\ resp.entry_rows[i].is_best_to_par
    /\ \E i \in 1 .. Len(resp.entry_rows) :
          /\ resp.entry_rows[i].total # None
          /\ ~resp.entry_rows[i].is_best
          /\ ~resp.entry_rows[i].is_best_to_par

\* the Score rows of the candidates on hole h of the course
HoleScores(h) ==
    UNION {RoundScores(je.id, resp.course_id, h, h) : je \in Candidates}

\* the k-th smallest score of the Score rows S, 1 <= k <= |S|
Kth(S, k) ==
    CHOOSE v \in {s.score : s \in S} :
        /\ Cardinality({s \in S : s.score < v}) < k
        /\ k <= Cardinality({s \in S : s.score <= v})

\* the fractions a and b are the same number
RatEq(a, b) == a.d > 0 /\ b.d > 0 /\ a.n * b.d = b.n * a.d

RECURSIVE RatSum(_, _, _)
\* the sum of the values f has on lo..hi, not reduced
RatSum(f, lo, hi) ==
    IF lo > hi THEN [n |-> 0, d |-> 1]
    ELSE LET rest == RatSum(f, lo + 1, hi)
         IN IF lo \in DOMAIN f
            THEN [n |-> f[lo].n * rest.d + rest.n * f[lo].d, d |-> f[lo].d * rest.d]
            ELSE rest

\* a summary row's out, in, total and to_par are derived from its per-hole values
DerivedFromHoles(row) ==
    /\ RatEq(row.out_total, RatSum(row.scores, 1, 9))
    /\ RatEq(row.in_total, RatSum(row.scores, 10, 18))
    /\ RatEq(row.total, RatSum(row.scores, 1, 18))
    /\ row.to_par.d > 0
    /\ row.to_par.n * row.total.d
          = (row.total.n - ParOfHoles(resp.course_id, 1, 18) * row.total.d)
               * row.to_par.d

\* C8: with view=average and a score recorded on some hole, the page is the
\* Average row and the Median row; on every hole with a score among the
\* candidates the Average row has the mean and the Median row the median (the
\* mean of the two middle values of an even count) of the scores recorded on
\* that hole; a hole without a score has no value in either row; out, in and
\* total of each row are the sums of its per-hole values and to_par is total
\* minus par_total.
C8_AverageMedianRows ==
    (/\ DetailShown
     /\ resp.selected_view = "average"
     /\ \E h \in 1 .. 18 : HoleScores(h) # {})
    => /\ Len(resp.entry_rows) = 2
       /\ resp.entry_rows[1].label = "Average"
       /\ resp.entry_rows[2].label = "Median"
       /\ DerivedFromHoles(resp.entry_rows[1])
       /\ DerivedFromHoles(resp.entry_rows[2])
       /\ \A h \in 1 .. 18 :
             LET S == HoleScores(h)
                 k == Cardinality(S)
                 average == resp.entry_rows[1].scores
                 med == resp.entry_rows[2].scores
             IN IF S = {}
                THEN h \notin DOMAIN average /\ h \notin DOMAIN med
                ELSE /\ h \in DOMAIN average /\ h \in DOMAIN med
                     /\ average[h].d > 0
                     /\ average[h].n * k = SumOfScores(S) * average[h].d
                     /\ med[h].d > 0
                     /\ med[h].n * 2
                           = (Kth(S, (k + 1) \div 2) + Kth(S, (k \div 2) + 1)) * med[h].d

\* C8 witness: scores 3 and 4 on hole 9 and a single score 5 on hole 8: mean
\* and median of hole 9 are 7/2, out is 5 + 7/2, and the Average total is not
\* the mean of the totals of the scored rounds
C8_HalfStroke ==
    /\ DetailShown
    /\ resp.selected_view = "average"
    /\ Cardinality(HoleScores(9)) = 2
    /\ Cardinality(HoleScores(8)) = 1
    /\ Len(resp.entry_rows) = 2
    /\ resp.entry_rows[1].scores[9] = [n |-> 7, d |-> 2]
    /\ resp.entry_rows[2].scores[9] = [n |-> 7, d |-> 2]
    /\ resp.entry_rows[1].out_total = [n |-> 17, d |-> 2]
    /\ LET scored == {je \in Candidates : Scored(je)}
           totals == SumOfScores({[score |-> RoundTotal(je), id |-> je.id] :
                                     je \in scored})
       IN resp.entry_rows[1].total.n * Cardinality(scored)
             # totals * resp.entry_rows[1].total.d

\* C9: with view=average, when no candidate has a score on a hole of the
\* course, the page has no row at all and is returned without an error.
C9_AverageWithoutScores ==
    (/\ DetailShown
     /\ resp.selected_view = "average"
     /\ \A h \in 1 .. 18 : HoleScores(h) = {})
    => /\ resp.entry_rows = <<>>
       /\ resp.status = 200

\* C9 witness: view=average over candidates of a course with holes, none of
\* them scored: the page is empty
C9_EmptyAverage ==
    /\ DetailShown
    /\ resp.selected_view = "average"
    /\ resp.holes # {}
    /\ Cardinality(Candidates) >= 2
    /\ \A je \in Candidates : ~Scored(je)
    /\ resp.entry_rows = <<>>

\* a journal page served right after a successful scorecard submission for
\* the same entry
ShownAfterSubmission ==
    /\ resp.handler = "add_scorecard"
    /\ resp.status = 302
    /\ resp.location = "journal_details"
    /\ resp'.handler = "journal_details"
    /\ resp'.status = 200
    /\ resp'.journal_entry_id = resp.journal_entry_id

\* the hole numbers for which the form carries a score
SubmittedHoles(form) == {n \in DOMAIN form : form[n] # ""}

\* the scorecard lists the holes of the entry's course, one line per hole, in
\* ascending hole order; a hole with a submitted score shows that score and
\* every other hole shows '-'
CardMatchesForm(card, form, course_id) ==
    /\ \A i, j \in 1 .. Len(card) : i < j => card[i].hole_number < card[j].hole_number
    /\ {card[i].hole_number : i \in 1 .. Len(card)}
           = {h.hole_number : h \in {h \in holes : h.course_id = course_id}}
    /\ \A i \in 1 .. Len(card) :
           card[i].score = IF card[i].hole_number \in SubmittedHoles(form)
                           THEN ToString(IntOfString[form[card[i].hole_number]])
                           ELSE "-"

\* C11 as claimed: after a successful scorecard submission the journal page
\* of the entry lists the course's holes in ascending order with exactly the
\* submitted scores and '-' elsewhere, and no submitted score is lost: every
\* hole number the form carried a score for has a line showing it.
C11_NoSubmittedScoreLost ==
    [][ShownAfterSubmission =>
           /\ CardMatchesForm(resp'.scorecard, resp.request.form, resp.course_id)
           /\ \A n \in SubmittedHoles(resp.request.form) :
                  \E i \in 1 .. Len(resp'.scorecard) :
                      resp'.scorecard[i].hole_number = n]_vars

\* C11, the part that holds: after a successful scorecard submission the
\* journal page of the entry lists the course's holes in ascending order; a
\* hole shows its submitted score when the form carried one for it and '-'
\* otherwise, so scores of an earlier submission that were not resubmitted
\* are gone. Only the holes the course defines have a line.
C11_RoundTrip ==
    [][ShownAfterSubmission =>
           /\ CardMatchesForm(resp'.scorecard, resp.request.form, resp.course_id)
           /\ \A n \in SubmittedHoles(resp.request.form) :
                  (\E h \in holes : h.course_id = resp.course_id /\ h.hole_number = n)
                      <=> \E i \in 1 .. Len(resp'.scorecard) :
                              resp'.scorecard[i].hole_number = n]_vars

\* a journal page with one hole scored and one hole showing '-'
C11_ScoreAndPlaceholder ==
    /\ resp.handler = "journal_details"
    /\ resp.status = 200
    /\ Len(resp.scorecard) = 2
    /\ resp.scorecard[1].score = "4"
    /\ resp.scorecard[2].score = "-"

\* a journal page of an entry
JournalShown == resp.handler = "journal_details" /\ resp.status = 200

\* the course the shown entry is linked to, 0 when it is linked to none
ShownCourse == Get(resp.course_id, 0)

\* C13: on a journal page total_par is the sum of the par of the holes of the
\* entry's course, total_score is the sum of the entry's recorded scores on
\* those holes, and score_difference is None when total_score is 0 and
\* total_score - total_par otherwise.
C13_JournalTotals ==
    JournalShown =>
        /\ resp.total_par = ParOfHoles(ShownCourse, 1, 18)
        /\ resp.total_score
               = SumOfScores(RoundScores(resp.journal_entry_id, ShownCourse, 1, 18))
        /\ resp.score_difference
               = IF resp.total_score = 0 THEN None
                 ELSE Some(resp.total_score - resp.total_par)

\* C13 witness: a journal page of a partly scored round: hole 9 of course 1
\* scored 4 of par 7 for both holes, shown as 3 under par
C13_PartialRoundDifference ==
    /\ JournalShown
    /\ resp.total_par = 7
    /\ resp.total_score = 4
    /\ resp.score_difference = Some(-3)

\* two course pages in a row that answer the same request: same course, same
\* user, same query parameters
SameCourseRequest ==
    /\ resp.handler = "course_details"
    /\ resp.status = 200
    /\ resp'.handler = "course_details"
    /\ resp'.status = 200
    /\ resp'.course_id = resp.course_id
    /\ resp'.user_id = resp.user_id
    /\ resp'.request = resp.request

OwnEntries ==
    {je \in journal_entries :
        je.course_id = Some(resp.course_id) /\ je.user_id = resp.user_id}

\* the years, as numbers, in which the shown user has an entry for the course
EntryYears == {2023 + (je.entry_date \div 12) : je \in OwnEntries}

\* the months, 1..12, of year y in which the shown user has an entry
EntryMonthsOf(y) ==
    {(je.entry_date % 12) + 1 :
        je \in {je \in OwnEntries : 2023 + (je.entry_date \div 12) = y}}

\* the names of the calendar months
CalendarMonths ==
    <<"January", "February", "March", "April", "May", "June", "July",
      "August", "September", "October", "November", "December">>

\* the text of a month number as two digits
MonthText(m) == IF m < 10 THEN "0" \o ToString(m) ELSE ToString(m)

\* seq lists exactly the members of S, each once, largest first, the element
\* for member x being Shown(x)
ListsDescending(seq, S, shown) ==
    /\ Len(seq) = Cardinality(S)
    /\ \A x \in S : \E i \in 1 .. Len(seq) : seq[i] = shown[x]
    /\ \A i, j \in 1 .. Len(seq) :
           i < j => \E x, y \in S : x > y /\ seq[i] = shown[x] /\ seq[j] = shown[y]

\* C15: available_years lists exactly the distinct years in which the user
\* has an entry for the course, latest first; when a year is selected,
\* available_months lists exactly the distinct months of that year in which
\* the user has an entry for the course, highest month first, each with its
\* two-digit value and full calendar month name.
C15_YearsAndMonths ==
    DetailShown =>
        /\ ListsDescending(resp.available_years, EntryYears,
                           [y \in EntryYears |-> ToString(y)])
        /\ \A y \in 2023 .. 2024 :
               resp.request.year = Some(ToString(y)) =>
                   ListsDescending(resp.available_months, EntryMonthsOf(y),
                                   [m \in EntryMonthsOf(y) |->
                                       [value |-> MonthText(m),
                                        label |-> CalendarMonths[m]]])

\* C15 witness: the user has entries in January and February 2023 and in
\* January 2024 and selects 2023: both years, and February before January
C15_TwoYearsTwoMonths ==
    /\ DetailShown
    /\ resp.request.year = Some("2023")
    /\ resp.available_years = <<"2024", "2023">>
    /\ resp.available_months = <<[value |-> "02", label |-> "February"],
                                 [value |-> "01", label |-> "January"]>>

\* the handlers that change courses and holes
CourseMutations == {"add_course", "edit_course", "add_holes_to_course"}

\* the step is a course mutation requested by a user who is not an admin
NonAdminMutation ==
    /\ resp'.handler \in CourseMutations
    /\ \A u \in users : u.id = resp'.request.user_id => ~u.is_admin

\* C16: a course mutation attempted by a user who is not an admin, GET or
\* POST, ends with status 403 and leaves the store unchanged, whatever the
\* form contains and whether or not the course exists.
C16_NonAdminForbidden ==
    [][NonAdminMutation => resp'.status = 403 /\ store' = store]_vars

\* C16 witness: a non-admin posted a valid hole form for a course that does
\* not exist and got 403, not 404
C16_ForbiddenBeforeLookup ==
    /\ resp.handler = "add_holes_to_course"
    /\ resp.status = 403
    /\ resp.request.user_id = 2
    /\ resp.request.method = "POST"
    /\ resp.request.course_id = 9
    /\ resp.request.form[9] = [par |-> "7", distance |-> "0"]

\* the text is a whole number between lo and hi
NumberIn(t, lo, hi) ==
    t \in IntStrings /\ lo <= IntOfString[t] /\ IntOfString[t] <= hi

\* the text is a decimal number that is not negative
RatingText(t) == t \in {"0", "70.5"}

\* the step answers a POST that carries an invalid value in a field the
\* handler validates: a filled score that is no number >= 1; a filled hole
\* par outside 1..7, or a filled distance that is no number >= 0, the
\* distance of a hole whose par is blank counting only if blankToo; a course
\* par, course rating or slope that is invalid
InvalidSubmission(blankToo) ==
    /\ "request" \in DOMAIN resp'
    /\ \/ /\ resp'.handler = "add_scorecard"
          /\ \E i \in DOMAIN resp'.request.form :
                 /\ resp'.request.form[i] # ""
                 /\ ~NumberIn(resp'.request.form[i], 1, 199)
       \/ /\ resp'.handler = "add_holes_to_course"
          /\ resp'.request.method = "POST"
          /\ \E i \in DOMAIN resp'.request.form :
                 LET f == resp'.request.form[i]
                 IN \/ f.par # "" /\ ~NumberIn(f.par, 1, 7)
                    \/ /\ f.distance # ""
                       /\ ~NumberIn(f.distance, 0, 199)
                       /\ blankToo \/ f.par # ""
       \/ /\ resp'.handler \in {"add_course", "edit_course"}
          /\ resp'.request.method = "POST"
          /\ LET f == resp'.request.form
             IN \/ ~NumberIn(f.par, 1, 199)
                \/ ~RatingText(f.course_rating)
                \/ ~NumberIn(f.slope, 55, 155)

\* C12 as claimed: a submission that contains any invalid value (a hole
\* score that is non-numeric or < 1; a hole par outside [1,7] or a distance
\* that is < 0 or non-numeric; a course par, course rating or slope that is
\* invalid) leaves the store unchanged, wherever the invalid value occurs.
C12_InvalidLeavesStore ==
    [][InvalidSubmission(TRUE) => store' = store]_vars

\* C12, the part that holds: the same for every invalid value except a
\* distance in the row of a hole whose par field is blank.
C12_ValidatedFieldsLeaveStore ==
    [][InvalidSubmission(FALSE) => store' = store]_vars

\* a hole form with an invalid value after a valid hole was answered with
\* the form and an error while holes were defined
C12_LateInvalidRejected ==
    /\ resp.handler = "add_holes_to_course"
    /\ resp.status = 200
    /\ resp.error
    /\ resp.request.form[9] = [par |-> "7", distance |-> "0"]
    /\ resp.request.form[10] = [par |-> "7", distance |-> "-1"]
    /\ holes # {}

\* C17 as claimed: every Score row of a journal entry references a Hole that
\* belongs to the course the entry is currently linked to.
C17_ScoresOnLinkedCourse ==
    \A sc \in scores :
        \A je \in journal_entries :
            je.id = sc.journal_entry_id =>
                \E h \in holes : h.id = sc.hole_id /\ je.course_id = Some(h.course_id)

\* an entry with a Score row was moved to another course or to none by
\* edit_journal_entry
C17_MovedWithScores ==
    /\ resp.handler = "edit_journal_entry"
    /\ resp.status = 302
    /\ \E sc \in scores : sc.journal_entry_id = resp.journal_entry_id

\* C18 as claimed: after a course's holes are redefined no Score row
\* references a hole id that no longer exists.
C18_NoDanglingScore ==
    \A sc \in scores : \E h \in holes : h.id = sc.hole_id

\* the holes of a course were redefined while an entry had Score rows
C18_RedefinedWithScores ==
    /\ resp.handler = "add_holes_to_course"
    /\ resp.status = 302
    /\ scores # {}

\* the rows a connection set out to insert
NewRows(c) == {conns[c].rows[k] : k \in 1 .. Len(conns[c].rows)}

\* a Hole row without its id
HoleFields(h) == [course_id |-> h.course_id, hole_number |-> h.hole_number,
                  par |-> h.par, distance |-> h.distance]

\* the step commits the scorecard of connection c: the scores table becomes
\* the old table without the entry's rows plus all the new rows
ScorecardReplaced(c) ==
    /\ conns[c].handler = "add_scorecard"
    /\ conns'[c].pc = "idle"
    /\ scores' = {sc \in scores :
                     sc.journal_entry_id # conns[c].request.journal_entry_id}
                 \cup NewRows(c)

\* the step commits the hole redefinition of connection c: the holes of the
\* other courses stay and the course has exactly the new holes
HolesReplaced(c) ==
    /\ conns[c].handler = "add_holes_to_course"
    /\ conns'[c].pc = "idle"
    /\ {h \in holes' : h.course_id # conns[c].request.course_id}
           = {h \in holes : h.course_id # conns[c].request.course_id}
    /\ {HoleFields(h) : h \in {h \in holes' :
                                  h.course_id = conns[c].request.course_id}}
           = NewRows(c)
    /\ Cardinality({h \in holes' : h.course_id = conns[c].request.course_id})
           = Len(conns[c].rows)

\* C19: the committed scores table changes only by one step that replaces
\* all rows of an entry by the complete new set, and the committed holes
\* table only by one step that replaces all holes of a course by the
\* complete new set; no other step (a DELETE, an INSERT, a failing
\* statement, a crash) changes what is committed and what other requests
\* read.
C19_AtomicReplacement ==
    [][/\ scores' # scores => \E c \in ConnIds : ScorecardReplaced(c)
       /\ holes' # holes => \E c \in ConnIds : HolesReplaced(c)]_vars

\* C19 witness: a scorecard submission has deleted the old rows and not yet
\* inserted its new row, while the committed table still holds the old row
C19_MidReplacement ==
    \E c \in ConnIds :
        /\ conns[c].pc = "writing"
        /\ conns[c].handler = "add_scorecard"
        /\ conns[c].done = 0
        /\ Len(conns[c].rows) = 1
        /\ \E sc \in scores :
               sc.journal_entry_id = conns[c].request.journal_entry_id

\* C20: the scores table holds at most one row per (journal_entry_id,
\* hole_id) pair and every stored score is an integer >= 1.
C20_OneScorePerHole ==
    /\ \A s1, s2 \in scores :
           s1.journal_entry_id = s2.journal_entry_id /\ s1.hole_id = s2.hole_id
               => s1 = s2
    /\ \A sc \in scores : sc.score \in Nat /\ sc.score >= 1

\* C20 witness: two submissions with different scores for the same entry
\* are in progress at once, one of them past its DELETE, and the entry has
\* a committed score
C20_InterleavedSubmissions ==
    /\ conns[1].handler = "add_scorecard"
    /\ conns[2].handler = "add_scorecard"
    /\ conns[1].pc = "writing"
    /\ conns[2].pc = "validated"
    /\ conns[1].request.journal_entry_id = conns[2].request.journal_entry_id
    /\ conns[1].request.form # conns[2].request.form
    /\ \E sc \in scores : sc.journal_entry_id = conns[1].request.journal_entry_id

\* the journal page of an entry is followed by the page of the entry's
\* course, opened by the same user with no date filter and no limit
CoursePageAfterJournalPage ==
    /\ resp.handler = "journal_details"
    /\ resp.status = 200
    /\ resp.course_id # None
    /\ resp'.handler = "course_details"
    /\ resp'.status = 200
    /\ resp'.course_id = resp.course_id[1]
    /\ resp'.user_id = resp.user_id
    /\ resp'.request = [year |-> None, month |-> None, view |-> None,
                        limit |-> Some("all")]

\* the course page has one row for the entry of the journal page, and its
\* total, par_total and to_par are the journal page's total_score,
\* total_par and score_difference
PagesAgree ==
    /\ Cardinality({i \in 1 .. Len(resp'.entry_rows) :
                       resp'.entry_rows[i].id = Some(resp.journal_entry_id)}) = 1
    /\ \A i \in 1 .. Len(resp'.entry_rows) :
           resp'.entry_rows[i].id = Some(resp.journal_entry_id) =>
               /\ resp'.entry_rows[i].total = Some(resp.total_score)
               /\ resp'.par_total = resp.total_par
               /\ resp'.entry_rows[i].to_par = resp.score_difference

\* C25 as claimed: for every journal entry that is linked to a course and
\* has at least one recorded score, journal_details' total_score, total_par
\* and score_difference equal course_details' total, par_total and to_par
\* for the entry.
C25_ViewsAgree ==
    [][(/\ CoursePageAfterJournalPage
        /\ \E sc \in scores : sc.journal_entry_id = resp.journal_entry_id)
       => PagesAgree]_vars

\* C25, the part that holds: the same for every entry with at least one
\* score on a hole of the course it is linked to.
C25_ViewsAgreeOnCourseScores ==
    [][(/\ CoursePageAfterJournalPage
        /\ \E sc \in scores :
               /\ sc.journal_entry_id = resp.journal_entry_id
               /\ \E h \in holes : h.id = sc.hole_id /\ h.course_id = resp.course_id[1])
       => PagesAgree]_vars

\* a course page lists a round moved to the course, with no total, while the
\* round still has Score rows
C25_MovedRoundWithoutTotal ==
    /\ DetailShown
    /\ resp.course_id = 2
    /\ \E i \in 1 .. Len(resp.entry_rows) :
           /\ resp.entry_rows[i].total = None
           /\ \E sc \in scores : Some(sc.journal_entry_id) = resp.entry_rows[i].id


(***************************************************************************)
(* migrate-db on a database from before the migrations                     *)
(***************************************************************************)
\* a database created before the migrations existed, with or without rows
\* in sessions and journal_entries; these rows are carried by
\* mig.legacy_rows only
InitMigrate ==
    /\ users = {}
    /\ courses = {}
    /\ holes = {}
    /\ journal_entries = {}
    /\ scores = {}
    /\ next_hole_id = 1
    /\ next_entry_id = 1
    /\ now = 0
    /\ resp = [handler |-> "none", status |-> 0]
    /\ conns = [c \in ConnIds |-> conn_idle]
    /\ \E legacy_rows \in BOOLEAN : mig = at_rest(legacy_schema, {}, legacy_rows)

NextMigrate ==
    \/ migrate_db_command
    \/ next_migration
    \/ upgrade_statement
    \/ insert_migration
    \/ commit_migration
    \/ migration_raises
    \/ process_stops

SpecMigrate == InitMigrate /\ [][NextMigrate]_vars

\* the schema of a database on which exactly the migrations ids are applied
schema_of(ids) == legacy_schema \cup UNION {changes(id) : id \in ids}

\* C21: after any run of migrate-db, also one that raised or was stopped,
\* the ids in schema_migrations are exactly the migrations whose schema
\* changes are in the database, and the schema is that of the recorded
\* migrations
C21_NeverPartiallyApplied ==
    (mig.pc = "idle" /\ mig.runs > 0) =>
        /\ mig.schema_migrations
               = {id \in MigrationIds : changes(id) \cap mig.schema # {}}
        /\ mig.schema = schema_of(mig.schema_migrations)

\* a run has ended with the changes of 0001 committed and no row for it in
\* schema_migrations
C21_ChangeWithoutLedgerRow ==
    /\ mig.pc = "idle"
    /\ mig.runs > 0
    /\ changes("0001_add_users_and_columns") \subseteq mig.schema
    /\ "0001_add_users_and_columns" \notin mig.schema_migrations

\* the ids in the order of log are in ascending order of file name
Ascending(log) ==
    \A i, j \in 1..Len(log) :
        i < j => \E a, b \in 1..Len(sorted_paths) :
                     /\ a < b
                     /\ sorted_paths[a].migration_id = log[i]
                     /\ sorted_paths[b].migration_id = log[j]

\* C22: within a run the migrations are applied in ascending order of file
\* name, a migration recorded in schema_migrations is not applied, no
\* migration is applied after a failure in the run, and over all runs each
\* migration is applied at most once
C22_AscendingAtMostOnce ==
    /\ Ascending(mig.log)
    /\ \A i \in 1..Len(mig.log) : mig.log[i] \notin mig.applied
    /\ mig.failed => mig.pc = "idle"
    /\ \A id \in MigrationIds : mig.upgraded[id] <= 1

\* the upgrade of 0002 has rebuilt the tables in two runs
C22_RebuiltTwice ==
    mig.upgraded["0002_enforce_user_id_not_null"] = 2


(***************************************************************************)
(* SpecPrivacy: two users log rounds on course 1, submit and delete their  *)
(* scorecards, and open the course page in every view.                     *)
(***************************************************************************)
MaxPrivacyEntries == 2

PrivacyLogEntry ==
    \E user_id \in UserIds :
        /\ next_entry_id <= MaxPrivacyEntries
        /\ add_journal_entry(user_id, "POST", Some("1"), now + 1)

PrivacyDefineHoles ==
    /\ course_holes(1) = {}
    /\ add_holes_to_course(1, 1, "POST", JournalHoleForm(1))

PrivacySubmit ==
    \E je \in journal_entries,
       form \in Forms(HoleNumbers, [i \in HoleNumbers |-> ScoreTexts(i)]) :
        add_scorecard(je.user_id, je.id, "POST", form)

PrivacyDelete ==
    \E je \in journal_entries : delete_journal_entry(je.user_id, je.id)

PrivacyView ==
    \E user_id \in UserIds, view \in Views,
       year \in {None, Some("2023")}, month \in {None, Some("2")} :
        course_details(1, user_id, year, month, view, Some("all"))

NextPrivacy ==
    \/ PrivacyDefineHoles
    \/ PrivacyLogEntry
    \/ PrivacySubmit
    \/ PrivacyDelete
    \/ PrivacyView

SpecPrivacy == Init /\ [][NextPrivacy]_vars

\* the user's own journal entries, and the scores of these entries
own_entries(user_id) == {je \in journal_entries : je.user_id = user_id}

own_scores(user_id) ==
    {s \in scores : \E je \in own_entries(user_id) : je.id = s.journal_entry_id}

\* the scores of the user's own entries on the holes of the course, as
\* journal_entry_id -> (hole_number -> score)
own_scores_by_entry(user_id, course_id) ==
    LET rows == UNION {{[journal_entry_id |-> s.journal_entry_id,
                         hole_number |-> h.hole_number,
                         score |-> s.score] :
                           h \in {h \in holes : h.id = s.hole_id
                                                /\ h.course_id = course_id}} :
                       s \in own_scores(user_id)}
    IN [e \in {r.journal_entry_id : r \in rows} |->
          [n \in {r.hole_number : r \in {q \in rows : q.journal_entry_id = e}} |->
             (CHOOSE r \in rows : r.journal_entry_id = e /\ r.hole_number = n).score]]

\* the user's own entries on the course, of the year and month when given
own_rounds(user_id, course_id, year, month) ==
    {je \in own_entries(user_id) :
        /\ je.course_id = Some(course_id)
        /\ (Truthy(year) => ToString(YearOf(je.entry_date)) = year[1])
        /\ (Truthy(month) => TwoDigits(MonthOf(je.entry_date)) = Zfill2(month[1]))}

\* the fields of the course page as they follow from the courses, the holes
\* and the user's own entries and scores alone
own_page(user_id, course_id, year, month, view, limit) ==
    UNION {
      {[entry_rows |-> apply_view(Get(view, "all"), rows, hs, par_total(hs)),
        candidates |-> rows,
        available_years |->
            Once({[i \in 1 .. Len(ys) |-> ToString(ys[i])] :
                     ys \in {SortedDescInts({YearOf(je.entry_date) :
                                je \in own_rounds(user_id, course_id, None, None)})}}),
        available_months |->
            Once({[i \in 1 .. Len(ms) |->
                      [value |-> TwoDigits(ms[i]), label |-> month_name[ms[i]]]] :
                     ms \in {SortedDescInts({MonthOf(je.entry_date) :
                                je \in own_rounds(user_id, course_id, year, None)})}})] :
         rows \in {with_best_flags(
                      [i \in 1 .. Len(entries) |->
                          entry_row(entries[i], by_entry, par_total(hs))])}} :
      hs \in {course_holes(course_id)},
      by_entry \in {own_scores_by_entry(user_id, course_id)},
      entries \in {Limit(s, limit_value(Get(limit, "10"))) :
                     s \in OrderByEntryDateDesc(
                              own_rounds(user_id, course_id, year, month))}}

\* C23: what course_details shows a user (entry_rows with the best flags and
\* the Average and Median rows, available_years, available_months) is what
\* follows from the courses, the holes and that user's own journal entries and
\* scores alone, whatever rows other users have
C23_OwnDataOnly ==
    (resp.handler = "course_details" /\ resp.status = 200) =>
        [entry_rows |-> resp.entry_rows,
         candidates |-> resp.candidates,
         available_years |-> resp.available_years,
         available_months |-> resp.available_months]
            \in own_page(resp.user_id, resp.course_id, resp.request.year,
                         resp.request.month, resp.request.view,
                         resp.request.limit)

\* user 1 sees their one round on the course page while user 2 has a round
\* with scores on the same course
C23_OtherUsersRoundNotShown ==
    /\ resp.handler = "course_details"
    /\ resp.status = 200
    /\ resp.user_id = 1
    /\ Len(resp.candidates) = 1
    /\ \E je \in own_entries(2) :
          /\ je.course_id = Some(1)
          /\ \E s \in own_scores(2) : s.journal_entry_id = je.id


(***************************************************************************)
(* SpecRace: user 1 logs a round on course 1; on two connections the       *)
(* round's scorecard is submitted statement by statement while either user *)
(* sends delete_journal_entry and add_scorecard for the round.             *)
(***************************************************************************)
MaxRaceEntries == 1

RaceLogEntry ==
    /\ next_entry_id <= MaxRaceEntries
    /\ add_journal_entry(1, "POST", Some("1"), now + 1)

RaceBeginScorecard ==
    \E c \in ConnIds, je \in journal_entries, user_id \in UserIds,
       form \in TxnScoreForms :
        begin_add_scorecard(c, user_id, je.id, form)

\* delete_journal_entry as one transaction, at a moment when no other
\* connection holds the write lock
RaceDeleteEntry ==
    \E je \in journal_entries, user_id \in UserIds :
        /\ \A c \in ConnIds : conns[c].pc # "writing"
        /\ delete_journal_entry(user_id, je.id)

NextRace ==
    \/ PrivacyDefineHoles
    \/ RaceLogEntry
    \/ RaceBeginScorecard
    \/ TxnDelete
    \/ TxnInsert
    \/ TxnCommit
    \/ TxnFail
    \/ RaceDeleteEntry

SpecRace == Init /\ [][NextRace]_vars

\* the step answers a delete_journal_entry or an add_scorecard that a user
\* sent for an entry of another user
NonOwnerRequest ==
    \E je \in journal_entries :
        /\ resp'.handler \in {"delete_journal_entry", "add_scorecard"}
        /\ resp'.status # 500
        /\ "request" \in DOMAIN resp'
        /\ resp'.request.user_id # je.user_id
        /\ IF resp'.handler = "delete_journal_entry"
           THEN resp'.request.entry_id = je.id
           ELSE /\ "journal_entry_id" \in DOMAIN resp'
                /\ resp'.journal_entry_id = je.id

\* C24: after every step of interleaved add_scorecard and
\* delete_journal_entry requests every Score row references a journal entry
\* that exists, and a request of a non-owner is answered not-found and
\* changes no row
C24_ScoresReferenceEntries ==
    [][/\ \A sc \in scores' : \E je \in journal_entries' :
              je.id = sc.journal_entry_id
       /\ NonOwnerRequest =>
              /\ resp'.status = 404
              /\ scores' = scores
              /\ journal_entries' = journal_entries]_vars

\* a Score row is committed for an entry that was deleted while its
\* scorecard was being submitted
C24_ScoreOfDeletedEntry ==
    /\ resp.handler = "add_scorecard"
    /\ resp.status = 302
    /\ resp.location = "journal_details"
    /\ \A je \in journal_entries : je.id # resp.journal_entry_id
    /\ \E sc \in scores : sc.journal_entry_id = resp.journal_entry_id

====
